---- MODULE Spec2Model ----
(***************************************************************************)
(* Model of the cloud-consolidation classification tools:                   *)
(*   find-dupes.py  exact-duplicate grouping, keep/delete scoring and the   *)
(*                  keep.txt / delete.txt / review.txt action lists;        *)
(*   taxonomy.py    manifest loading, EXIF year extraction, capture-year    *)
(*                  resolution, cluster discovery, shard collapsing and     *)
(*                  category assignment;                                    *)
(*   manifest.py, manifest-scan.py  the records of the inventory builders;  *)
(*   delete-executor.py  the deletions of delete.txt and their log;         *)
(*   organize.py    the move plan of the taxonomy mapping and its moves.    *)
(* Python strings are sequences of one-character strings, so that the       *)
(* regular expressions, lower(), title(), split() and slicing of the source *)
(* are computed character by character.  Python's None for an optional      *)
(* string is the empty sequence (every present value is non-empty).         *)
(***************************************************************************)
EXTENDS Integers, Sequences, FiniteSets, TLC

VARIABLES
    \* ---- find-dupes.py: main() ----
    files,        \* list[FileEntry] returned by load_manifest
    pc,           \* position of main(): "loaded", "analyzed", "listed", "written", "crashed"
    exact_dupes,  \* list[DuplicateGroup]
    near_dupes,   \* list of <<key, list[FileEntry]>> (dict in insertion order)
    junk_files,   \* list[FileEntry]
    keep_set,     \* set of paths
    delete_list,  \* list of <<path, reason>>
    review_list,  \* list of <<path, reason>>
    keep_txt,     \* lines of keep.txt
    delete_txt,   \* lines of delete.txt
    review_txt,   \* lines of review.txt
    \* ---- taxonomy.py: assign_files_to_categories ----
    tax_files,          \* list[FileEntry] passed as files
    semantic_clusters,  \* dict token -> count passed as semantic_clusters
    run,                \* 1: first classification run, 2: the run repeated; 0: not started
    mappings,           \* per run, the list of mappings built so far
    \* ---- the manifest read by both load_manifest functions ----
    manifest_items,     \* data["files"]: list of dicts (functions key -> value)
    \* ---- taxonomy.py: load_manifest and extract_exif_years_batch ----
    tax_pc,             \* position of taxonomy's main(), see LoadTaxManifest
    extract_exif,       \* the option --extract-exif
    is_terminal,        \* console.is_terminal: thread pool, else sequential
    disk,               \* path -> what the file on disk holds
    image_files,        \* the list image_files of the batch (indices of entries)
    task,               \* per image file: position, locals and result of extract_exif_year
    sys_stdout,         \* the process-wide sys.stdout
    results,            \* the dict results of the batch: path -> year
    \* ---- taxonomy.py: discover_semantic_clusters ----
    min_cluster_size,   \* the option --min-cluster
    token_files,        \* discover_semantic_clusters: token -> files, in insertion order
    cluster_list,       \* the tokens of the returned dict, in its order
    \* ---- the file system that delete-executor.py and organize.py work on ----
    file_system,        \* path -> content, for every regular file that exists
    dirs,               \* the directories that exist
    now,                \* the clock, in whole seconds
    deletion_log,       \* deletion-log.txt: whether it exists, can be written, its lines
    \* ---- delete-executor.py: main() ----
    del_pc,             \* position of main(): "idle", "start", "deleting", "done", "crashed"
    delete_entries,     \* the paths of delete.txt, in its order
    permanent,          \* the option --permanent
    existing_files,     \* the entries found by the pre-scan
    outcomes,           \* per processed entry, the success flag returned
    \* ---- organize.py: main() ----
    org_pc,             \* position of main(): "idle", "start", "planned", "moved"
    mapping,            \* rows <<current_path, proposed_category>> (dict in insertion order)
    dry_run,            \* the option --dry-run
    rows_done,          \* build_move_operations: the rows of the mapping gone through
    dest_paths_used,    \* build_move_operations: the destination of every regular operation
    operations,         \* list[MoveOperation]
    missing_files,      \* BuildResult.missing_files
    skipped_sidecars,   \* processed_sidecars, returned as BuildResult.skipped_sidecars
    missing_deleted,    \* missing files found in the deletion log
    missing_unexpected, \* missing files not found in the deletion log
    move_results        \* per executed operation, the success flag returned

dupeVars == <<files, pc, exact_dupes, near_dupes, junk_files, keep_set,
              delete_list, review_list, keep_txt, delete_txt, review_txt>>

taxVars == <<tax_files, semantic_clusters, run, mappings>>

exifVars == <<tax_pc, extract_exif, is_terminal, disk, image_files, task,
              sys_stdout, results>>

clusterVars == <<min_cluster_size, token_files, cluster_list>>

diskVars == <<file_system, dirs, now, deletion_log>>

delVars == <<del_pc, delete_entries, permanent, existing_files, outcomes>>

planVars == <<org_pc, mapping, dry_run, rows_done, dest_paths_used, operations, missing_files, skipped_sidecars,
              missing_deleted, missing_unexpected, move_results>>

orgVars == <<diskVars, delVars, planVars>>

vars == <<dupeVars, taxVars, manifest_items, exifVars, clusterVars, orgVars>>

-----------------------------------------------------------------------------
(* Strings *)

None == <<>>

UpperCase == <<"A", "B", "C", "D", "E", "F", "G", "H", "I", "J", "K", "L", "M",
               "N", "O", "P", "Q", "R", "S", "T", "U", "V", "W", "X", "Y", "Z">>

LowerCase == <<"a", "b", "c", "d", "e", "f", "g", "h", "i", "j", "k", "l", "m",
               "n", "o", "p", "q", "r", "s", "t", "u", "v", "w", "x", "y", "z">>

Digits == {"0", "1", "2", "3", "4", "5", "6", "7", "8", "9"}

\* Code-point order of the characters that occur in the modelled strings.
AsciiOrder == <<" ", "$", "(", ")", "-", ".", "/",
                "0", "1", "2", "3", "4", "5", "6", "7", "8", "9", ":",
                "A", "B", "C", "D", "E", "F", "G", "H", "I", "J", "K", "L", "M",
                "N", "O", "P", "Q", "R", "S", "T", "U", "V", "W", "X", "Y", "Z",
                "_",
                "a", "b", "c", "d", "e", "f", "g", "h", "i", "j", "k", "l", "m",
                "n", "o", "p", "q", "r", "s", "t", "u", "v", "w", "x", "y", "z",
                "|", "~">>

Chars == {AsciiOrder[i] : i \in DOMAIN AsciiOrder}

OrdTable == [c \in Chars |-> CHOOSE i \in DOMAIN AsciiOrder : AsciiOrder[i] = c]

Ord(c) == OrdTable[c]

\* str.lower() and str.upper() on one character.
LowerTable ==
    [c \in Chars |->
        IF \E i \in DOMAIN UpperCase : UpperCase[i] = c
        THEN LowerCase[CHOOSE i \in DOMAIN UpperCase : UpperCase[i] = c]
        ELSE c]

UpperTable ==
    [c \in Chars |->
        IF \E i \in DOMAIN LowerCase : LowerCase[i] = c
        THEN UpperCase[CHOOSE i \in DOMAIN LowerCase : LowerCase[i] = c]
        ELSE c]

Letters == {LowerCase[i] : i \in DOMAIN LowerCase} \cup {UpperCase[i] : i \in DOMAIN UpperCase}

LowerChar(c) == LowerTable[c]

UpperChar(c) == UpperTable[c]

IsLetter(c) == c \in Letters

StrLower(s) == [i \in DOMAIN s |-> LowerChar(s[i])]

StartsWith(s, p) == Len(s) >= Len(p) /\ SubSeq(s, 1, Len(p)) = p

EndsWith(s, p) == Len(s) >= Len(p) /\ SubSeq(s, Len(s) - Len(p) + 1, Len(s)) = p

\* s < t in Python's string order (code points, shorter prefix first).
StrLess(s, t) ==
    \/ Len(s) < Len(t) /\ SubSeq(t, 1, Len(s)) = s
    \/ \E i \in 1..Len(s) :
          /\ i <= Len(t)
          /\ SubSeq(s, 1, i - 1) = SubSeq(t, 1, i - 1)
          /\ Ord(s[i]) < Ord(t[i])

\* "sep".join(parts)
RECURSIVE Join(_, _)
Join(sep, parts) ==
    IF Len(parts) = 0 THEN <<>>
    ELSE IF Len(parts) = 1 THEN parts[1]
    ELSE parts[1] \o sep \o Join(sep, Tail(parts))

Range(list) == {list[i] : i \in DOMAIN list}

-----------------------------------------------------------------------------
(* find-dupes.py: the filenames explored *)

ScoreNames ==
    {<<"D", "o", "c", "u", "m", "e", "n", "t", ".", "p", "d", "f">>,
     <<"D", "o", "c", "u", "m", "e", "n", "t", " ", "(", "1", ")", ".", "p", "d", "f">>,
     <<"r", "e", "p", "o", "r", "t", ".", "d", "o", "c", "x", ".", "t", "m", "p">>,
     <<"a", ".", "p", "d", "f">>}

GroupNames ==
    {<<"D", "o", "c", "u", "m", "e", "n", "t", ".", "p", "d", "f">>,
     <<"T", "h", "u", "m", "b", "s", ".", "d", "b">>}

VariantNames ==
    {<<"a", ".", "p", "d", "f">>,
     <<"C", "o", "p", "y", " ", "o", "f", " ", "a", ".", "p", "d", "f">>,
     <<"C", "o", "p", "y", " ", "o", "f", " ", "C", "o", "p", "y", " ", "o", "f", " ",
       "a", ".", "p", "d", "f">>,
     <<"a", ".", "t", "m", "p">>,
     <<"C", "o", "p", "y", " ", "o", "f", " ", "a", ".", "t", "m", "p">>}

\* Every filename of the manifests explored; the pattern library is evaluated
\* once per filename.
AllNames == ScoreNames \cup GroupNames \cup VariantNames

-----------------------------------------------------------------------------
(* find-dupes.py: pattern library *)

\* SOURCE_PRIORITY.get(source, 0)
SOURCE_PRIORITY(source) ==
    CASE source = "gdrive"   -> 3
      [] source = "dropbox"  -> 2
      [] source = "onedrive" -> 1
      [] OTHER               -> 0

\* JUNK_PATTERNS, compiled with re.IGNORECASE and applied with match():
\* each pattern is anchored at both ends of the filename.
JUNK_PATTERNS(filename) ==
    LET l == StrLower(filename) IN
    <<  StartsWith(l, <<"~", "$">>),
        EndsWith(l, <<".", "t", "m", "p">>),
        EndsWith(l, <<".", "t", "e", "m", "p">>),
        l = <<".", "d", "s", "_", "s", "t", "o", "r", "e">>,
        l = <<"t", "h", "u", "m", "b", "s", ".", "d", "b">>,
        EndsWith(l, <<".", "b", "a", "k">>),
        EndsWith(l, <<"~">>),
        l = <<"d", "e", "s", "k", "t", "o", "p", ".", "i", "n", "i">>,
        EndsWith(l, <<".", "l", "r", "c", "a", "t", "-", "j", "o", "u", "r", "n", "a", "l">>),
        EndsWith(l, <<".", "p", "a", "r", "t", "i", "a", "l">>),
        EndsWith(l, <<".", "l", "o", "c", "k">>)  >>

\* any(p.match(filename) for p in JUNK_COMPILED)
JunkMatch(filename) ==
    LET matches == JUNK_PATTERNS(filename) IN \E k \in DOMAIN matches : matches[k]

JunkOfName == [n \in AllNames |-> JunkMatch(n)]

is_junk_file(filename) ==
    IF filename \in AllNames THEN JunkOfName[filename] ELSE JunkMatch(filename)

\* The optional group (\.[^.]+)? at the end of a copy pattern.
IsExtGroup(e) ==
    \/ e = <<>>
    \/ /\ Len(e) >= 2
       /\ e[1] = "."
       /\ \A i \in 2..Len(e) : e[i] # "."

\* The character of a digit 0..9.
AsciiDigit(n) == <<"0", "1", "2", "3", "4", "5", "6", "7", "8", "9">>[n + 1]

IsDigits(m) == Len(m) >= 1 /\ \A i \in DOMAIN m : m[i] \in Digits

\* The number of leading digits of s from index i on.
RECURSIVE DigitRun(_, _)
DigitRun(s, i) ==
    IF i <= Len(s) /\ s[i] \in Digits THEN 1 + DigitRun(s, i + 1) ELSE 0

\* The literal after [-_] in the copy patterns 4..10 (lower-cased: IGNORECASE).
CopyWord(k) ==
    CASE k = 4  -> <<"c", "o", "p", "y">>
      [] k = 5  -> <<"b", "a", "c", "k", "u", "p">>
      [] k = 6  -> <<"o", "l", "d">>
      [] k = 7  -> <<"v">>
      [] k = 8  -> <<"f", "i", "n", "a", "l">>
      [] k = 9  -> <<"f", "i", "n", "a", "l">>
      [] k = 10 -> <<"f", "i", "n", "a", "l", "-", "f", "i", "n", "a", "l">>

\* Where the middle part of copy pattern k (2..10) ends when the first group
\* (.+) is l[1..i], or 0 when it does not match there.  l is the lower-cased
\* filename.  \d+ is greedy and is followed by a non-digit, so it takes the
\* whole run of digits.
CopyMiddleEnd(k, l, i) ==
    LET sep(c) == c \in {"-", "_"}
        lit(w) == IF i + Len(w) <= Len(l) /\ SubSeq(l, i + 1, i + Len(w)) = w
                  THEN i + Len(w) ELSE 0
    IN  CASE k = 2 -> lit(<<" ", "-", " ", "c", "o", "p", "y">>)
          [] k = 3 -> LET d == DigitRun(l, i + 3) IN
                      IF /\ i + 4 <= Len(l)
                         /\ l[i + 1] = " " /\ l[i + 2] = "("
                         /\ d >= 1 /\ i + 3 + d <= Len(l) /\ l[i + 3 + d] = ")"
                      THEN i + 3 + d ELSE 0
          [] k = 7 -> LET d == DigitRun(l, i + 3) IN
                      IF /\ i + 3 <= Len(l)
                         /\ sep(l[i + 1]) /\ l[i + 2] = "v" /\ d >= 1
                      THEN i + 2 + d ELSE 0
          [] k = 10 -> IF /\ i + 12 <= Len(l)
                          /\ sep(l[i + 1]) /\ sep(l[i + 7])
                          /\ SubSeq(l, i + 2, i + 6) = <<"f", "i", "n", "a", "l">>
                          /\ SubSeq(l, i + 8, i + 12) = <<"f", "i", "n", "a", "l">>
                       THEN i + 12 ELSE 0
          [] OTHER -> IF /\ i + 1 + Len(CopyWord(k)) <= Len(l)
                         /\ sep(l[i + 1])
                         /\ SubSeq(l, i + 2, i + 1 + Len(CopyWord(k))) = CopyWord(k)
                      THEN i + 1 + Len(CopyWord(k)) ELSE 0

\* The lengths i of the first group (.+) with which pattern k matches s.
CopySplits(k, s) ==
    LET l == StrLower(s) IN
    {i \in 1..Len(s) :
        /\ CopyMiddleEnd(k, l, i) > 0
        /\ IsExtGroup(SubSeq(s, CopyMiddleEnd(k, l, i) + 1, Len(s)))}

\* COPY_PATTERNS[k]: the result of pattern.sub(replacement, filename) when
\* pattern k matches, None otherwise.  (.+) is greedy: the longest first group.
COPY_PATTERNS(k, s) ==
    IF k = 1
    THEN IF Len(s) > 8 /\ StrLower(SubSeq(s, 1, 8)) = <<"c", "o", "p", "y", " ", "o", "f", " ">>
         THEN SubSeq(s, 9, Len(s))
         ELSE None
    ELSE LET splits == CopySplits(k, s) IN
         IF splits = {} THEN None
         ELSE LET i == CHOOSE x \in splits : \A y \in splits : y <= x
              IN  SubSeq(s, 1, i) \o SubSeq(s, CopyMiddleEnd(k, StrLower(s), i) + 1, Len(s))

NumCopyPatterns == 10

\* The loop of get_canonical_name: the first matching pattern in table order
\* decides.
FirstCopyMatch(filename) ==
    LET sub     == [k \in 1..NumCopyPatterns |-> COPY_PATTERNS(k, filename)]
        matches == {k \in 1..NumCopyPatterns : sub[k] # None}
    IN  IF matches = {} THEN None
        ELSE sub[CHOOSE k \in matches : \A h \in matches : k <= h]

CanonicalOfName == [n \in AllNames |-> FirstCopyMatch(n)]

get_canonical_name(filename) ==
    IF filename \in AllNames THEN CanonicalOfName[filename] ELSE FirstCopyMatch(filename)

-----------------------------------------------------------------------------
(* find-dupes.py: FileEntry and keep scoring *)

\* A FileEntry of find-dupes.py.  path is the record's unique key, a number
\* that stands for the path string and orders as it does.  mtime is the
\* timestamp string by what datetime.fromisoformat makes of it: fmt "naive"
\* parses to the instant t without timezone, fmt "aware" to the instant t
\* with a UTC offset, fmt "bad" (the empty string among them) does not parse.
FileEntry(path, source, filename, extension, mtime, md5) ==
    [path |-> path, source |-> source, filename |-> filename,
     extension |-> extension, mtime |-> mtime, md5 |-> md5]

\* FileEntry.mtime_dt raises ValueError on a string that is no ISO timestamp.
mtime_dt_raises(entry) == entry.mtime.fmt = "bad"

mtime_dt(entry) == entry.mtime.t

source_priority(entry) == SOURCE_PRIORITY(entry.source)

Bool(b) == IF b THEN 1 ELSE 0

\* score_file without its first component.
score_file_without_junk(entry) ==
    <<  1,
        Bool(get_canonical_name(entry.filename) = None),
        mtime_dt(entry),
        Len(entry.filename),
        source_priority(entry)  >>

\* score_file with the name length ahead of the copy-variant component.
score_file_length_first(entry) ==
    <<  Bool(~ is_junk_file(entry.filename)),
        Len(entry.filename),
        Bool(get_canonical_name(entry.filename) = None),
        mtime_dt(entry),
        source_priority(entry)  >>

\* score_file: (not is_junk, not is_copy, mtime_dt, len(filename), source_priority)
score_file(entry) ==
    <<  Bool(~ is_junk_file(entry.filename)),
        Bool(get_canonical_name(entry.filename) = None),
        mtime_dt(entry),
        Len(entry.filename),
        source_priority(entry)  >>

\* The comparison a <= b of tuples.
TupleLessOrEqual(a, b) ==
    \/ a = b
    \/ \E i \in DOMAIN a :
          /\ \A j \in 1..(i - 1) : a[j] = b[j]
          /\ a[i] < b[i]

\* Python's tuple comparison a < b.
TupleLess(a, b) ==
    \E i \in DOMAIN a :
        /\ \A j \in 1..(i - 1) : a[j] = b[j]
        /\ a[i] < b[i]

\* list.sort on <<key, item>> pairs with reverse=True: descending by key,
\* and stable, so items of equal key stay in their order.
RECURSIVE SortedDescending(_)
SortedDescending(keyed) ==
    IF keyed = <<>> THEN <<>>
    ELSE LET n    == Len(keyed)
             x    == keyed[n]
             done == SortedDescending(SubSeq(keyed, 1, n - 1))
             k    == Cardinality({i \in DOMAIN done : ~ TupleLess(done[i][1], x[1])})
         IN  SubSeq(done, 1, k) \o <<x>> \o SubSeq(done, k + 1, Len(done))

\* sorted(file_list, key=score_file, reverse=True)
SortedByScore(file_list) ==
    LET keyed  == [i \in DOMAIN file_list |-> <<score_file(file_list[i]), file_list[i]>>]
        sorted == SortedDescending(keyed)
    IN  [i \in DOMAIN sorted |-> sorted[i][2]]

\* by_md5_keys without the test of line 128: records without hash are grouped.
RECURSIVE by_md5_keys_with_empty(_)
by_md5_keys_with_empty(fs) ==
    IF fs = <<>> THEN <<>>
    ELSE LET prev == by_md5_keys_with_empty(SubSeq(fs, 1, Len(fs) - 1))
             f    == fs[Len(fs)]
         IN  IF f.md5 \in Range(prev) THEN prev ELSE Append(prev, f.md5)

\* The keys of by_md5 in insertion order (find_exact_duplicates, lines 125-129).
RECURSIVE by_md5_keys(_)
by_md5_keys(fs) ==
    IF fs = <<>> THEN <<>>
    ELSE LET prev == by_md5_keys(SubSeq(fs, 1, Len(fs) - 1))
             f    == fs[Len(fs)]
         IN  IF f.md5 = "" \/ f.md5 \in Range(prev) THEN prev ELSE Append(prev, f.md5)

by_md5(fs, md5) == SelectSeq(fs, LAMBDA f : f.md5 = md5)

\* DuplicateGroup with delete = sorted_files[0:] instead of sorted_files[1:].
DuplicateGroup_delete_all(md5, file_list) ==
    LET sorted_files == SortedByScore(file_list) IN
    [md5 |-> md5, files |-> file_list,
     keep |-> sorted_files[1],
     delete |-> sorted_files]

\* DuplicateGroup built in the loop body of find_exact_duplicates (lines 134-138).
DuplicateGroup(md5, file_list) ==
    LET sorted_files == SortedByScore(file_list) IN
    [md5 |-> md5, files |-> file_list,
     keep |-> sorted_files[1],
     delete |-> SubSeq(sorted_files, 2, Len(sorted_files))]

RECURSIVE GroupsOf(_, _)
GroupsOf(fs, keys) ==
    IF keys = <<>> THEN <<>>
    ELSE (IF Len(by_md5(fs, Head(keys))) > 1
          THEN <<DuplicateGroup(Head(keys), by_md5(fs, Head(keys)))>>
          ELSE <<>>) \o GroupsOf(fs, Tail(keys))

\* The comparison of two score tuples raises TypeError: the tuples agree on
\* the components ahead of mtime_dt and one datetime is naive, the other
\* aware (they are unequal, and < between them is not defined).
score_compare_raises(a, b) ==
    /\ score_file(a)[1] = score_file(b)[1]
    /\ score_file(a)[2] = score_file(b)[2]
    /\ a.mtime.fmt # b.mtime.fmt

\* sorted(file_list, key=score_file, reverse=True) raises: a key cannot be
\* computed, or two members that end up next to each other cannot be
\* compared, which a sort finds out whatever pairs it compares first.
sort_raises(file_list) ==
    \/ \E i \in DOMAIN file_list : mtime_dt_raises(file_list[i])
    \/ \E i, j \in DOMAIN file_list : score_compare_raises(file_list[i], file_list[j])

\* find_exact_duplicates raises when the sort of a group raises.
find_exact_duplicates_raises(fs) ==
    \E i \in DOMAIN fs :
        /\ fs[i].md5 # ""
        /\ Len(by_md5(fs, fs[i].md5)) > 1
        /\ sort_raises(by_md5(fs, fs[i].md5))

find_exact_duplicates(fs) == GroupsOf(fs, by_md5_keys(fs))

-----------------------------------------------------------------------------
(* find-dupes.py: near duplicates and junk *)

\* The dictionary key f"{canonical.lower()}|{f.extension}" of a variant.
NearKey(canonical, f) == StrLower(canonical) \o <<"|">> \o f.extension

\* key.split("|")[0]
SplitFirst(key) ==
    LET bars == {i \in DOMAIN key : key[i] = "|"} IN
    IF bars = {} THEN key
    ELSE SubSeq(key, 1, (CHOOSE i \in bars : \A j \in bars : i <= j) - 1)

\* canonical_groups (lines 150-157) as <<key, variants>> pairs in insertion
\* order; canon[i] is get_canonical_name of fs[i].
RECURSIVE canonical_groups(_, _, _)
canonical_groups(fs, canon, n) ==
    IF n = 0 THEN <<>>
    ELSE LET prev == canonical_groups(fs, canon, n - 1)
             key  == NearKey(canon[n], fs[n])
         IN  IF canon[n] = None THEN prev
             ELSE IF \E g \in DOMAIN prev : prev[g][1] = key
                  THEN [g \in DOMAIN prev |->
                           IF prev[g][1] = key
                           THEN <<key, Append(prev[g][2], fs[n])>>
                           ELSE prev[g]]
                  ELSE Append(prev, <<key, <<fs[n]>> >>)

\* find_near_duplicates: the result dictionary as <<key, members>> pairs.
find_near_duplicates(fs) ==
    LET canon  == [i \in DOMAIN fs |-> get_canonical_name(fs[i].filename)]
        groups == canonical_groups(fs, canon, Len(fs))
        lower  == [i \in DOMAIN fs |-> StrLower(fs[i].filename)]
        originals(key) ==
            LET hit == SelectSeq([i \in DOMAIN fs |-> i],
                                 LAMBDA i : lower[i] = SplitFirst(key))
            IN  [j \in DOMAIN hit |-> fs[hit[j]]]
        kept   == SelectSeq(groups,
                            LAMBDA g : originals(g[1]) # <<>> \/ Len(g[2]) > 1)
    IN  [g \in DOMAIN kept |-> <<kept[g][1], originals(kept[g][1]) \o kept[g][2]>>]

find_junk_files(fs) == SelectSeq(fs, LAMBDA f : is_junk_file(f.filename))

-----------------------------------------------------------------------------
(* find-dupes.py: main *)

\* The reason column of delete.txt and review.txt:
\*   "exact duplicate of <keep-path>", "junk/temp file",
\*   "possible variant: <canonical name>".
ExactReason(keep_path) == [kind |-> "exact duplicate of", keep |-> keep_path, token |-> <<>>]

JunkReason == [kind |-> "junk/temp file", keep |-> 0, token |-> <<>>]

VariantReason(token) == [kind |-> "possible variant:", keep |-> 0, token |-> token]

KindRank(kind) ==
    CASE kind = "exact duplicate of" -> 1
      [] kind = "junk/temp file"     -> 2
      [] kind = "possible variant:"  -> 3

\* (path, reason) < (path, reason) as Python orders the tuples of strings.
LineLess(a, b) ==
    \/ a[1] < b[1]
    \/ /\ a[1] = b[1]
       /\ \/ KindRank(a[2].kind) < KindRank(b[2].kind)
          \/ /\ a[2].kind = b[2].kind
             /\ \/ a[2].keep < b[2].keep
                \/ a[2].keep = b[2].keep /\ StrLess(a[2].token, b[2].token)

\* sorted(list of (path, reason))
RECURSIVE SortedLines(_)
SortedLines(lines) ==
    IF lines = <<>> THEN <<>>
    ELSE LET n    == Len(lines)
             x    == lines[n]
             done == SortedLines(SubSeq(lines, 1, n - 1))
             k    == Cardinality({i \in DOMAIN done : ~ LineLess(x, done[i])})
         IN  SubSeq(done, 1, k) \o <<x>> \o SubSeq(done, k + 1, Len(done))

\* sorted(keep_paths)
RECURSIVE SortedPaths(_)
SortedPaths(paths) ==
    IF paths = <<>> THEN <<>>
    ELSE LET n    == Len(paths)
             x    == paths[n]
             done == SortedPaths(SubSeq(paths, 1, n - 1))
             k    == Cardinality({i \in DOMAIN done : done[i] <= x})
         IN  SubSeq(done, 1, k) \o <<x>> \o SubSeq(done, k + 1, Len(done))

Paths(lines) == {lines[i][1] : i \in DOMAIN lines}

\* lines 238-242: the delete entries of the exact-duplicate groups.
RECURSIVE ExactDeletes(_)
ExactDeletes(groups) ==
    IF groups = <<>> THEN <<>>
    ELSE [i \in DOMAIN Head(groups).delete |->
             <<Head(groups).delete[i].path, ExactReason(Head(groups).keep.path)>>]
         \o ExactDeletes(Tail(groups))

\* lines 244-248: junk files not in deleted_paths.
JunkDeletes(junk, deleted_paths) ==
    LET rest == SelectSeq(junk, LAMBDA f : f.path \notin deleted_paths)
    IN  [i \in DOMAIN rest |-> <<rest[i].path, JunkReason>>]

\* lines 251-256: the review entries of the near-duplicate groups.
RECURSIVE ReviewEntries(_, _, _)
ReviewEntries(near, deleted_paths, keeps) ==
    IF near = <<>> THEN <<>>
    ELSE LET key       == Head(near)[1]
             unhandled == SelectSeq(Head(near)[2],
                              LAMBDA f : f.path \notin deleted_paths /\ f.path \notin keeps)
         IN  (IF Len(unhandled) > 1
              THEN [i \in DOMAIN unhandled |->
                       <<unhandled[i].path, VariantReason(SplitFirst(key))>>]
              ELSE <<>>) \o ReviewEntries(Tail(near), deleted_paths, keeps)

\* lines 224-226: the three analyses; an exception of find_exact_duplicates
\* ends the program.
AnalyzeDuplicates ==
    /\ pc = "loaded"
    /\ IF find_exact_duplicates_raises(files)
       THEN /\ pc' = "crashed"
            /\ UNCHANGED <<exact_dupes, near_dupes, junk_files>>
       ELSE /\ pc' = "analyzed"
            /\ exact_dupes' = find_exact_duplicates(files)
            /\ near_dupes' = find_near_duplicates(files)
            /\ junk_files' = find_junk_files(files)
    /\ UNCHANGED <<files, keep_set, delete_list, review_list,
                   keep_txt, delete_txt, review_txt>>
    /\ UNCHANGED <<taxVars, manifest_items, exifVars, clusterVars, orgVars>>

\* lines 232-256: keep_set, delete_list and review_list.  deleted_paths is
\* computed once, after the exact duplicates and before the junk files.
BuildOutputLists ==
    /\ pc = "analyzed"
    /\ LET exact         == ExactDeletes(exact_dupes)
           deleted_paths == Paths(exact)
           keeps         == {exact_dupes[i].keep.path : i \in DOMAIN exact_dupes}
       IN  /\ keep_set' = keeps
           /\ delete_list' = exact \o JunkDeletes(junk_files, deleted_paths)
           /\ review_list' = ReviewEntries(near_dupes, deleted_paths, keeps)
    /\ pc' = "listed"
    /\ UNCHANGED <<files, exact_dupes, near_dupes, junk_files,
                   keep_txt, delete_txt, review_txt>>
    /\ UNCHANGED <<taxVars, manifest_items, exifVars, clusterVars, orgVars>>

\* lines 258-278: keep.txt, delete.txt and review.txt.
WriteOutputs ==
    /\ pc = "listed"
    /\ LET deleted_paths == Paths(delete_list)
           kept == SelectSeq(files, LAMBDA f : f.path \notin deleted_paths)
       IN  keep_txt' = SortedPaths([i \in DOMAIN kept |-> kept[i].path])
    /\ delete_txt' = SortedLines(delete_list)
    /\ review_txt' = SortedLines(review_list)
    /\ pc' = "written"
    /\ UNCHANGED <<files, exact_dupes, near_dupes, junk_files,
                   keep_set, delete_list, review_list>>
    /\ UNCHANGED <<taxVars, manifest_items, exifVars, clusterVars, orgVars>>

DupesNext == AnalyzeDuplicates \/ BuildOutputLists \/ WriteOutputs

-----------------------------------------------------------------------------
(* find-dupes.py: the manifests explored *)

MaxFiles == 3

\* Path.suffix.lower().lstrip(".") of a filename (manifest.py, line 89).
ExtensionOf(filename) ==
    LET dots == {i \in DOMAIN filename : filename[i] = "."} IN
    IF dots = {} THEN <<>>
    ELSE LET i == CHOOSE d \in dots : \A e \in dots : e <= d
         IN  IF i > 1 /\ i < Len(filename)
             THEN StrLower(SubSeq(filename, i + 1, Len(filename)))
             ELSE <<>>

\* The inventory builders write datetime.fromtimestamp(..).isoformat().
Naive(t) == [fmt |-> "naive", t |-> t]

\* A timestamp with a UTC offset, as in "2020-05-01T10:00:00+00:00".
Aware(t) == [fmt |-> "aware", t |-> t]

\* A string datetime.fromisoformat rejects, the empty string among them.
Malformed == [fmt |-> "bad", t |-> 0]

Entry(path, proto) ==
    FileEntry(path, proto[2], proto[1], ExtensionOf(proto[1]), proto[3], proto[4])

\* The bound on the manifests of one content hash, whose records all meet in
\* one sort.
MaxGroupFiles == 2

\* load_manifest: every list of at most `max` records over `pool`
\* (<<filename, source, mtime, md5>>), record i at path i.
Manifests(pool, max) ==
    UNION {{[i \in 1..n |-> Entry(i, m[i])] : m \in [1..n -> pool]} : n \in 0..max}

\* One content hash, every score component varying.
ScorePool == ScoreNames \X {"gdrive", "dropbox"} \X {Naive(1), Naive(2)} \X {"h1"}

\* Hashes empty, shared and single.
GroupPool == GroupNames \X {"gdrive"} \X {Naive(1), Naive(2)} \X {"", "h1", "h2"}

\* Timestamps naive, timezone-qualified and malformed, hashes empty and
\* shared.
MtimePool ==
    {<<"D", "o", "c", "u", "m", "e", "n", "t", ".", "p", "d", "f">>,
     <<"D", "o", "c", "u", "m", "e", "n", "t", " ", "(", "1", ")", ".", "p", "d", "f">>}
    \X {"gdrive"} \X {Naive(1), Naive(2), Aware(1), Malformed} \X {"", "h1"}

\* Copy variants, their originals and junk.
VariantPool == VariantNames \X {"gdrive"} \X {Naive(1)} \X {"", "h1"}

\* sys.stdout as the interpreter starts, and the io.StringIO() that
\* extract_exif_year creates for image file i (taxonomy.py, line 136).
OriginalStdout == [kind |-> "stdout", of |-> 0]

StringIO(i) == [kind |-> "StringIO", of |-> i]

\* The proxy that the live display of `with Progress(...)` puts in place of
\* sys.stdout while the progress bar is shown (taxonomy.py, line 203).
FileProxy == [kind |-> "FileProxy", of |-> 0]

\* The default of --min-cluster.
DefaultMinCluster == 10

\* No metadata extraction is under way; taxonomy's main() is at pc_value.
ExifIdle(pc_value) ==
    /\ tax_pc = pc_value
    /\ extract_exif = FALSE
    /\ is_terminal = FALSE
    /\ disk = <<>>
    /\ image_files = <<>>
    /\ task = <<>>
    /\ sys_stdout = OriginalStdout
    /\ results = <<>>

\* discover_semantic_clusters has not run.
ClustersIdle ==
    /\ min_cluster_size = DefaultMinCluster
    /\ token_files = [scanned |-> 0, items |-> <<>>]
    /\ cluster_list = <<>>

\* No file system is attached: delete-executor.py and organize.py are not
\* running.
OrgIdle ==
    /\ file_system = <<>>
    /\ dirs = {}
    /\ now = 0
    /\ deletion_log = <<>>
    /\ del_pc = "idle"
    /\ delete_entries = <<>>
    /\ permanent = FALSE
    /\ existing_files = <<>>
    /\ outcomes = <<>>
    /\ org_pc = "idle"
    /\ mapping = <<>>
    /\ dry_run = FALSE
    /\ rows_done = 0
    /\ dest_paths_used = <<>>
    /\ operations = <<>>
    /\ missing_files = {}
    /\ skipped_sidecars = {}
    /\ missing_deleted = {}
    /\ missing_unexpected = {}
    /\ move_results = <<>>

\* taxonomy.py is not running.
TaxIdle ==
    /\ tax_files = <<>>
    /\ semantic_clusters = <<>>
    /\ run = 0
    /\ mappings = <<>>
    /\ ExifIdle("idle")
    /\ ClustersIdle

DupesInit(pool, max) ==
    /\ TaxIdle
    /\ OrgIdle
    /\ manifest_items = <<>>
    /\ files \in Manifests(pool, max)
    /\ pc = "loaded"
    /\ exact_dupes = <<>>
    /\ near_dupes = <<>>
    /\ junk_files = <<>>
    /\ keep_set = {}
    /\ delete_list = <<>>
    /\ review_list = <<>>
    /\ keep_txt = <<>>
    /\ delete_txt = <<>>
    /\ review_txt = <<>>

SpecScore == DupesInit(ScorePool, MaxGroupFiles) /\ [][DupesNext]_vars

SpecGroup == DupesInit(GroupPool, MaxFiles) /\ [][DupesNext]_vars

SpecMain == DupesInit(VariantPool, MaxFiles) /\ [][DupesNext]_vars

SpecMtime == DupesInit(MtimePool, MaxGroupFiles) /\ [][DupesNext]_vars

\* One content hash: a plain name under two sources and two timestamps, and
\* a shorter plain name, a copy variant and a junk name, so that three
\* records can be equal, ordered or tied on every component of the score.
OrderPool ==
    ({<<"D", "o", "c", "u", "m", "e", "n", "t", ".", "p", "d", "f">>}
        \X {"gdrive", "dropbox"} \X {Naive(1), Naive(2)} \X {"h1"})
    \cup
    ({<<"a", ".", "p", "d", "f">>,
      <<"D", "o", "c", "u", "m", "e", "n", "t", " ", "(", "1", ")", ".", "p", "d", "f">>,
      <<"r", "e", "p", "o", "r", "t", ".", "d", "o", "c", "x", ".", "t", "m", "p">>}
        \X {"gdrive"} \X {Naive(1)} \X {"h1"})

MaxOrderFiles == 3

SpecOrder == DupesInit(OrderPool, MaxOrderFiles) /\ [][AnalyzeDuplicates]_vars

-----------------------------------------------------------------------------
(* Properties of find-dupes.py *)

Analyzed == pc \in {"analyzed", "listed", "written"}

PathsOf(list) == {list[i].path : i \in DOMAIN list}

Groups == {exact_dupes[i] : i \in DOMAIN exact_dupes}

\* C1: in every duplicate group returned by find_exact_duplicates, keep is one
\* member of the group and delete holds every other member exactly once:
\* |delete| = |group| - 1 and keep is not in delete.
C1_KeepDeletePartition ==
    Analyzed =>
        \A g \in Groups :
            /\ g.keep.path \in PathsOf(g.files)
            /\ Len(g.delete) = Len(g.files) - 1
            /\ PathsOf(g.delete) = PathsOf(g.files) \ {g.keep.path}
            /\ Cardinality(PathsOf(g.delete)) = Len(g.delete)
            /\ g.keep.path \notin PathsOf(g.delete)

\* A group of three members has been split into its keep and two deletes.
C1_Witness ==
    /\ Analyzed
    /\ \E g \in Groups : Len(g.files) = 3 /\ Len(g.delete) = 2

NotJunk(f) == ~ is_junk_file(f.filename)

\* C2: in every duplicate group with a member whose filename matches no junk
\* pattern, the keep's filename matches no junk pattern.
C2_JunkNeverKept ==
    Analyzed =>
        \A g \in Groups :
            (\E i \in DOMAIN g.files : NotJunk(g.files[i])) => NotJunk(g.keep)

\* A junk member that is newer and from a better source than the keep, and has
\* a longer name, was not kept.
C2_Witness ==
    /\ Analyzed
    /\ \E g \in Groups : \E i \in DOMAIN g.delete :
          /\ ~ NotJunk(g.delete[i])
          /\ NotJunk(g.keep)
          /\ g.delete[i].mtime.t > g.keep.mtime.t
          /\ Len(g.delete[i].filename) > Len(g.keep.filename)
          /\ SOURCE_PRIORITY(g.delete[i].source) > SOURCE_PRIORITY(g.keep.source)

\* a is before b in the order of the claim: not junk, then not copy-variant,
\* then newer mtime, then longer filename, then higher source priority.
KeepOrderLess(a, b) ==
    LET nj(f) == Bool(NotJunk(f))
        nc(f) == Bool(get_canonical_name(f.filename) = None)
        sp(f) == SOURCE_PRIORITY(f.source)
    IN  \/ nj(a) < nj(b)
        \/ nj(a) = nj(b) /\ nc(a) < nc(b)
        \/ nj(a) = nj(b) /\ nc(a) = nc(b) /\ a.mtime.t < b.mtime.t
        \/ /\ nj(a) = nj(b) /\ nc(a) = nc(b) /\ a.mtime.t = b.mtime.t
           /\ Len(a.filename) < Len(b.filename)
        \/ /\ nj(a) = nj(b) /\ nc(a) = nc(b) /\ a.mtime.t = b.mtime.t
           /\ Len(a.filename) = Len(b.filename)
           /\ sp(a) < sp(b)

DocumentPdf == <<"D", "o", "c", "u", "m", "e", "n", "t", ".", "p", "d", "f">>

Document1Pdf ==
    <<"D", "o", "c", "u", "m", "e", "n", "t", " ", "(", "1", ")", ".", "p", "d", "f">>

\* The group is "Document.pdf" and "Document (1).pdf" with equal mtime and source.
DocumentPair(g) ==
    /\ Len(g.files) = 2
    /\ {g.files[1].filename, g.files[2].filename} = {DocumentPdf, Document1Pdf}
    /\ g.files[1].mtime = g.files[2].mtime
    /\ g.files[1].source = g.files[2].source

SharedHashes ==
    {h \in {files[i].md5 : i \in DOMAIN files} :
        h # "" /\ Cardinality({i \in DOMAIN files : files[i].md5 = h}) >= 2}

\* C4: find_exact_duplicates returns exactly one group per non-empty hash that
\* two or more records share, holding every record with that hash, and no
\* other group; a record without hash is in no group.
C4_GroupsAreSharedHashes ==
    Analyzed =>
        /\ \A h \in SharedHashes :
              /\ Cardinality({i \in DOMAIN exact_dupes : exact_dupes[i].md5 = h}) = 1
              /\ \A g \in Groups :
                    g.md5 = h =>
                       PathsOf(g.files) = {files[i].path : i \in {j \in DOMAIN files : files[j].md5 = h}}
        /\ \A g \in Groups : g.md5 \in SharedHashes
        /\ \A g \in Groups : \A i \in DOMAIN g.files : g.files[i].md5 = g.md5 /\ g.files[i].md5 # ""

\* One shared hash made a group, beside a record with a hash of its own and
\* (in other manifests) a record without hash.
C4_Witness ==
    /\ Analyzed
    /\ Len(exact_dupes) = 1
    /\ \E i \in DOMAIN files : files[i].md5 \notin {"", exact_dupes[1].md5}

\* The paths of a list of lines occur once each.
NoRepeat(lines) ==
    \A i, j \in DOMAIN lines : lines[i][1] = lines[j][1] => i = j

\* C5: no path is written to both delete.txt and review.txt, and no path is
\* written twice to either.
C5_OneDecisionPerFile ==
    pc = "written" =>
        /\ Paths(delete_txt) \cap Paths(review_txt) = {}
        /\ NoRepeat(delete_txt)
        /\ NoRepeat(review_txt)

\* C26, as stated: the keep of an exact-duplicate group is not written to
\* delete.txt, and every path named in an "exact duplicate of" reason is
\* listed in keep.txt.
C26_KeepNeverDeleted ==
    pc = "written" =>
        /\ \A g \in Groups : g.keep.path \notin Paths(delete_txt)
        /\ \A i \in DOMAIN delete_txt :
              delete_txt[i][2].kind = "exact duplicate of" =>
                 \E k \in DOMAIN keep_txt : keep_txt[k] = delete_txt[i][2].keep

\* C30, as stated: a path is written to keep.txt exactly when it is in
\* neither delete.txt nor review.txt.
C30_KeepIsTheRest ==
    pc = "written" =>
        \A p \in PathsOf(files) :
           (\E k \in DOMAIN keep_txt : keep_txt[k] = p)
              <=> p \notin Paths(delete_txt) \cup Paths(review_txt)

\* C17, as stated: grouping by hash has no error outcome, whatever the
\* mtime strings of the records.
C17_NoErrorOutcome == pc # "crashed"

-----------------------------------------------------------------------------
(* taxonomy.py: FileEntry *)

\* A FileEntry of taxonomy.py: the fields the classification reads.
TaxEntry(path, extension, mime_type, mtime, exif_year) ==
    [path |-> path, extension |-> extension, mime_type |-> mime_type,
     mtime |-> mtime, exif_year |-> exif_year]

HexDigits == Digits \cup {"a", "b", "c", "d", "e", "f", "A", "B", "C", "D", "E", "F"}

\* s has the literal lit at index i.
HasAt(s, i, lit) == i >= 1 /\ i + Len(lit) - 1 <= Len(s) /\ SubSeq(s, i, i + Len(lit) - 1) = lit

\* The number of hex digits of s from index i on.
RECURSIVE HexRun(_, _)
HexRun(s, i) ==
    IF i <= Len(s) /\ s[i] \in HexDigits THEN 1 + HexRun(s, i + 1) ELSE 0

\* s.split(sep) for a one-character sep.
RECURSIVE Split(_, _)
Split(s, sep) ==
    LET hits == {i \in DOMAIN s : s[i] = sep} IN
    IF hits = {} THEN <<s>>
    ELSE LET i == CHOOSE h \in hits : \A g \in hits : h <= g
         IN  <<SubSeq(s, 1, i - 1)>> \o Split(SubSeq(s, i + 1, Len(s)), sep)

\* Path(path).name
PathName(path) == LET parts == Split(path, "/") IN parts[Len(parts)]

\* Path(path).parent.parts of a POSIX path: the root, then every component
\* but the last.
PathParentParts(path) ==
    LET comps == SelectSeq(Split(path, "/"), LAMBDA c : c # <<>> /\ c # <<".">>)
        root  == IF path # <<>> /\ path[1] = "/" THEN << <<"/">> >> ELSE <<>>
    IN  root \o (IF comps = <<>> THEN <<>> ELSE SubSeq(comps, 1, Len(comps) - 1))

\* HEX_SHARD_PATTERNS[k] found at index i of the path (pattern.search).
ShardPatternAt(k, path, i) ==
    CASE k = 1 ->
            /\ HasAt(path, i, <<".", "p", "h", "o", "t", "o", "s", "l", "i", "b", "r", "a", "r", "y", "/">>)
            /\ \E dir \in {<<"o", "r", "i", "g", "i", "n", "a", "l", "s">>, <<"r", "e", "s", "o", "u", "r", "c", "e", "s">>, <<"M", "a", "s", "t", "e", "r", "s">>} :
                  /\ HasAt(path, i + 15, dir)
                  /\ LET j == i + 15 + Len(dir) IN
                     /\ HasAt(path, j, <<"/">>)
                     /\ HexRun(path, j + 1) >= 1
                     /\ \/ HasAt(path, j + 2, <<"/">>)
                        \/ HexRun(path, j + 1) >= 2 /\ HasAt(path, j + 3, <<"/">>)
      [] k = 2 ->
            /\ HasAt(path, i, <<"G", "e", "n", "e", "r", "a", "t", "e", "d", " ", "I", "m", "a", "g", "e", "s", ".", "b", "u", "n", "d", "l", "e", "/">>)
            /\ HexRun(path, i + 24) >= 2
            /\ HasAt(path, i + 26, <<"/">>)
      [] k = 3 ->
            /\ HasAt(path, i, <<"/">>)
            /\ HexRun(path, i + 1) >= 2
            /\ HasAt(path, i + 3, <<"/">>)
            /\ HexRun(path, i + 4) >= 32
            /\ HasAt(path, i + 4 + HexRun(path, i + 4), <<".">>)

ShardLabel(k) ==
    CASE k = 1 -> <<"A", "p", "p", "l", "e", " ", "P", "h", "o", "t", "o", "s", " ", "L", "i", "b", "r", "a", "r", "y">>
      [] k = 2 -> <<"M", "y", "l", "i", "o", " ", "G", "e", "n", "e", "r", "a", "t", "e", "d">>
      [] k = 3 -> <<"C", "o", "n", "t", "e", "n", "t", "-", "A", "d", "d", "r", "e", "s", "s", "a", "b", "l", "e">>

NumShardPatterns == 3

\* The label of the last pattern of the table found in the path.
LastShardMatch(path) ==
    LET found == {k \in 1..NumShardPatterns : \E i \in DOMAIN path : ShardPatternAt(k, path, i)}
    IN  IF found = {} THEN None
        ELSE ShardLabel(CHOOSE k \in found : \A h \in found : k >= h)

\* The loop of FileEntry.is_in_hex_shard: the label of the first pattern, in
\* table order, found in the path; None for (False, None).
FirstShardMatch(path) ==
    LET found == {k \in 1..NumShardPatterns : \E i \in DOMAIN path : ShardPatternAt(k, path, i)}
    IN  IF found = {} THEN None
        ELSE ShardLabel(CHOOSE k \in found : \A h \in found : k <= h)

\* The year pattern (?<!\d)(19[89]\d|20[012]\d)(?!\d) at index i of s.
YearAt(s, i) ==
    /\ i + 3 <= Len(s)
    /\ \/ s[i] = "1" /\ s[i + 1] = "9" /\ s[i + 2] \in {"8", "9"}
       \/ s[i] = "2" /\ s[i + 1] = "0" /\ s[i + 2] \in {"0", "1", "2"}
    /\ s[i + 3] \in Digits
    /\ (i > 1 => s[i - 1] \notin Digits)
    /\ (i + 4 <= Len(s) => s[i + 4] \notin Digits)

\* year_pattern.findall(path) as a set.
PathYears(path) ==
    {SubSeq(path, i, i + 3) : i \in {j \in DOMAIN path : YearAt(path, j)}}

\* re.search(year pattern, path).group(1): the leftmost match, or None.
FirstPathYear(path) ==
    LET at == {i \in DOMAIN path : YearAt(path, i)} IN
    IF at = {} THEN None
    ELSE LET i == CHOOSE a \in at : \A b \in at : a <= b
         IN  SubSeq(path, i, i + 3)

\* max(year_pattern.findall(path)), or None.
MaxPathYear(path) ==
    LET ys == PathYears(path) IN
    IF ys = {} THEN None
    ELSE CHOOSE y \in ys : \A z \in ys : z = y \/ StrLess(z, y)

\* The non-empty pieces of re.split(r"[\s_\-\.]+", name).
RECURSIVE SplitRuns(_)
SplitRuns(name) ==
    LET seps == {" ", "_", "-", "."} IN
    IF name = <<>> THEN <<>>
    ELSE IF Head(name) \in seps THEN SplitRuns(Tail(name))
    ELSE LET stops == {i \in DOMAIN name : name[i] \in seps}
             n     == IF stops = {} THEN Len(name)
                      ELSE (CHOOSE i \in stops : \A j \in stops : i <= j) - 1
         IN  <<SubSeq(name, 1, n)>> \o SplitRuns(SubSeq(name, n + 1, Len(name)))

\* extract_folder_tokens: lower-case, split on runs of separators, keep the
\* pieces longer than one character.
extract_folder_tokens(folder_name) ==
    SelectSeq(SplitRuns(StrLower(folder_name)), LAMBDA x : Len(x) > 1)

\* str.title(): a letter after a non-letter is upper-cased, any other letter
\* lower-cased.
Title(s) ==
    [i \in DOMAIN s |->
        IF ~ IsLetter(s[i]) THEN s[i]
        ELSE IF i = 1 \/ ~ IsLetter(s[i - 1]) THEN UpperChar(s[i]) ELSE LowerChar(s[i])]

\* The tokens of the folders of a path, folder by folder, as the loops of
\* lines 416-418 meet them.
RECURSIVE TokenListOfFolders(_)
TokenListOfFolders(folders) ==
    IF folders = <<>> THEN <<>>
    ELSE extract_folder_tokens(Head(folders)) \o TokenListOfFolders(Tail(folders))

PathTokenList(path) == TokenListOfFolders(PathParentParts(path))

\* The set path_tokens built in lines 583-585.
RECURSIVE TokensOfFolders(_)
TokensOfFolders(folders) ==
    IF folders = <<>> THEN {}
    ELSE Range(extract_folder_tokens(Head(folders))) \cup TokensOfFolders(Tail(folders))

PathTokens(path) == TokensOfFolders(PathParentParts(path))

-----------------------------------------------------------------------------
(* taxonomy.py: the paths explored *)

YearPaths ==
    {<<"/", "p", "h", "o", "t", "o", "s", "/", "1", "9", "9", "9", "/", "i", "m", "g", ".", "j", "p", "g">>,
     <<"/", "p", "h", "o", "t", "o", "s", "/", "i", "m", "g", ".", "j", "p", "g">>,
     <<"/", "a", "/", "2", "0", "1", "9", "/", "b", "_", "2", "0", "2", "1", "/", "x", ".", "j", "p", "g">>,
     <<"/", "a", "/", "2", "0", "2", "1", "/", "2", "0", "1", "9", "/", "x", ".", "j", "p", "g">>,
     <<"/", "x", "/", "1", "2", "0", "1", "9", "/", "2", "0", "2", "1", "5", "/", "y", ".", "j", "p", "g">>,
     <<"/", "x", "/", "1", "9", "7", "9", "_", "2", "0", "3", "0", "/", "y", ".", "j", "p", "g">>}

AssignPaths ==
    {<<"/", "d", "a", "t", "a", "/", "f", "a", "m", "i", "l", "y", "_", "v", "a", "c", "a", "t", "i", "o", "n", "/", "i", "m", "g", ".", "j", "p", "g">>,
     <<"/", "d", "a", "t", "a", "/", "f", "a", "m", "i", "l", "y", "_", "v", "a", "c", "a", "t", "i", "o", "n", "/", "2", "0", "1", "9", "/", "i", "m", "g", ".", "j", "p", "g">>,
     <<"/", "u", "/", "l", "i", "b", ".", "p", "h", "o", "t", "o", "s", "l", "i", "b", "r", "a", "r", "y", "/", "o", "r", "i", "g", "i", "n", "a", "l", "s", "/", "4", "/", "I", "M", "G", "_", "0", "0", "0", "1", ".", "h", "e", "i", "c">>,
     <<"/", "f", "a", "m", "i", "l", "y", "/", "G", "e", "n", "e", "r", "a", "t", "e", "d", " ", "I", "m", "a", "g", "e", "s", ".", "b", "u", "n", "d", "l", "e", "/", "a", "1", "/", "x", ".", "j", "p", "g">>,
     <<"/", "d", "o", "c", "s", "/", "r", "e", "p", "o", "r", "t", ".", "p", "d", "f">>,
     <<"/", "f", "a", "m", "i", "l", "y", "/", "2", "0", "1", "9", "/", "a", "b", "/",
       "0", "1", "2", "3", "4", "5", "6", "7", "8", "9", "a", "b", "c", "d", "e", "f",
       "0", "1", "2", "3", "4", "5", "6", "7", "8", "9", "a", "b", "c", "d", "e", "f",
       ".", "j", "p", "g">>}

\* The count a cluster must reach to refine a category (line 546).
SignificantSupport == 50

\* str(n) of a natural number.
RECURSIVE Decimal(_)
Decimal(n) ==
    IF n < 10 THEN <<AsciiDigit(n)>> ELSE Decimal(n \div 10) \o <<AsciiDigit(n % 10)>>

\* The k-th file of the folders /vacation and /family.
VacationFile(k) == <<"/", "v", "a", "c", "a", "t", "i", "o", "n", "/", "f">> \o Decimal(k) \o <<".", "p", "d", "f">>

FamilyFile(k) == <<"/", "f", "a", "m", "i", "l", "y", "/", "f">> \o Decimal(k) \o <<".", "p", "d", "f">>

\* A file whose folders repeat a token.
TripFile == <<"/", "f", "a", "m", "i", "l", "y", "/", "f", "a", "m", "i", "l", "y", "_", "t", "r", "i", "p", "/", "x", ".", "p", "d", "f">>

ClusterPaths ==
    {VacationFile(k) : k \in 1..SignificantSupport}
    \cup {FamilyFile(k) : k \in 1..SignificantSupport}
    \cup {TripFile}

\* A file name of 32 hexadecimal digits.
HashName(extension) ==
    <<"0", "1", "2", "3", "4", "5", "6", "7", "8", "9", "a", "b", "c", "d", "e", "f", "0", "1", "2", "3", "4", "5", "6", "7", "8", "9", "a", "b", "c", "d", "e", "f">>
    \o <<".">> \o extension

\* Paths in which one, two or none of the shard patterns are found.
ApplePath == <<"/", "u", "/", "l", "i", "b", ".", "p", "h", "o", "t", "o", "s", "l", "i", "b", "r", "a", "r", "y", "/", "o", "r", "i", "g", "i", "n", "a", "l", "s", "/", "4", "/", "I", "M", "G", "_", "0", "0", "0", "1", ".", "h", "e", "i", "c">>

AppleHashPath == <<"/", "u", "/", "l", "i", "b", ".", "p", "h", "o", "t", "o", "s", "l", "i", "b", "r", "a", "r", "y", "/", "o", "r", "i", "g", "i", "n", "a", "l", "s", "/", "a", "b", "/">> \o HashName(<<"h", "e", "i", "c">>)

AppleMylioPath == <<"/", "u", "/", "l", "i", "b", ".", "p", "h", "o", "t", "o", "s", "l", "i", "b", "r", "a", "r", "y", "/", "M", "a", "s", "t", "e", "r", "s", "/", "4", "/", "G", "e", "n", "e", "r", "a", "t", "e", "d", " ", "I", "m", "a", "g", "e", "s", ".", "b", "u", "n", "d", "l", "e", "/", "a", "1", "/", "x", ".", "j", "p", "g">>

MylioHashPath == <<"/", "m", "/", "G", "e", "n", "e", "r", "a", "t", "e", "d", " ", "I", "m", "a", "g", "e", "s", ".", "b", "u", "n", "d", "l", "e", "/", "a", "1", "/">> \o HashName(<<"j", "p", "g">>)

HashPath == <<"/", "c", "a", "s", "/", "a", "b", "/">> \o HashName(<<"j", "p", "g">>)

PlainPath == <<"/", "d", "o", "c", "s", "/", "r", "e", "p", "o", "r", "t", ".", "p", "d", "f">>

ShardPaths == {ApplePath, AppleHashPath, AppleMylioPath, MylioHashPath, HashPath, PlainPath}

\* Every path explored; the path analyses are evaluated once per path.
AllPaths == YearPaths \cup AssignPaths \cup ClusterPaths \cup ShardPaths

ShardOfPath == [p \in AllPaths |-> FirstShardMatch(p)]

YearOfPath == [p \in AllPaths |-> FirstPathYear(p)]

TokensOfPath == [p \in AllPaths |-> PathTokens(p)]

TokenListOfPath == [p \in AllPaths |-> PathTokenList(p)]

-----------------------------------------------------------------------------
(* taxonomy.py: FileEntry properties and category assignment *)

\* FileEntry.is_in_hex_shard: the shard label, None for (False, None).
is_in_hex_shard(f) ==
    IF f.path \in AllPaths THEN ShardOfPath[f.path] ELSE FirstShardMatch(f.path)

\* The year the path search of best_year finds (lines 80-82).
path_year(path) ==
    IF path \in AllPaths THEN YearOfPath[path] ELSE FirstPathYear(path)

\* best_year with the path searched before the EXIF year is looked at.
best_year_path_first(f) ==
    IF path_year(f.path) # None THEN path_year(f.path)
    ELSE IF f.exif_year # None THEN f.exif_year
    ELSE IF f.mtime # <<>> THEN SubSeq(f.mtime, 1, IF Len(f.mtime) < 4 THEN Len(f.mtime) ELSE 4)
    ELSE None

\* FileEntry.best_year: EXIF year, else the first year in the path, else
\* mtime[:4], else None.
best_year(f) ==
    IF f.exif_year # None THEN f.exif_year
    ELSE IF path_year(f.path) # None THEN path_year(f.path)
    ELSE IF f.mtime # <<>> THEN SubSeq(f.mtime, 1, IF Len(f.mtime) < 4 THEN Len(f.mtime) ELSE 4)
    ELSE None

\* The set path_tokens of a file.
path_tokens(f) ==
    IF f.path \in AllPaths THEN TokensOfPath[f.path] ELSE PathTokens(f.path)

\* mime_friendly.get(mime_prefix, "Other") (lines 529-552).
mime_friendly(mime_prefix) ==
    CASE mime_prefix = <<"i", "m", "a", "g", "e">> -> <<"I", "m", "a", "g", "e", "s">>
      [] mime_prefix = <<"v", "i", "d", "e", "o">> -> <<"V", "i", "d", "e", "o", "s">>
      [] mime_prefix = <<"a", "u", "d", "i", "o">> -> <<"A", "u", "d", "i", "o">>
      [] mime_prefix = <<"t", "e", "x", "t">> -> <<"T", "e", "x", "t">>
      [] mime_prefix = <<"a", "p", "p", "l", "i", "c", "a", "t", "i", "o", "n">> -> <<"D", "o", "c", "u", "m", "e", "n", "t", "s">>
      [] mime_prefix = <<"f", "o", "n", "t">> -> <<"F", "o", "n", "t", "s">>
      [] mime_prefix = <<"m", "o", "d", "e", "l">> -> <<"3", "D", " ", "M", "o", "d", "e", "l", "s">>
      [] mime_prefix = <<"m", "e", "s", "s", "a", "g", "e">> -> <<"M", "e", "s", "s", "a", "g", "e", "s">>
      [] mime_prefix = <<"m", "u", "l", "t", "i", "p", "a", "r", "t">> -> <<"A", "r", "c", "h", "i", "v", "e", "s">>
      [] mime_prefix = <<"c", "h", "e", "m", "i", "c", "a", "l">> -> <<"S", "c", "i", "e", "n", "t", "i", "f", "i", "c">>
      [] OTHER -> <<"O", "t", "h", "e", "r">>

\* primary_category of a file (lines 551-552).
primary_category(f) ==
    mime_friendly(IF \E i \in DOMAIN f.mime_type : f.mime_type[i] = "/"
                  THEN Split(f.mime_type, "/")[1]
                  ELSE <<"o", "t", "h", "e", "r">>)

Images == <<"I", "m", "a", "g", "e", "s">>

\* significant_clusters (lines 544-547): the tokens of the significant clusters.
significant_clusters(clusters) ==
    {token \in DOMAIN clusters : clusters[token] >= SignificantSupport}

\* Every order in which a set can be iterated.
RECURSIVE Orders(_)
Orders(S) ==
    IF S = {} THEN {<<>>}
    ELSE UNION {{<<x>> \o rest : rest \in Orders(S \ {x})} : x \in S}

\* max(matching_clusters, key=count) in the place of min.
MaxByCount(matching_clusters, clusters) ==
    matching_clusters[CHOOSE i \in DOMAIN matching_clusters :
        /\ \A j \in DOMAIN matching_clusters :
              clusters[matching_clusters[i]] >= clusters[matching_clusters[j]]
        /\ \A j \in 1..(i - 1) :
              clusters[matching_clusters[j]] < clusters[matching_clusters[i]]]

\* min(matching_clusters, key=count): the first of the least counts.
MinByCount(matching_clusters, clusters) ==
    matching_clusters[CHOOSE i \in DOMAIN matching_clusters :
        /\ \A j \in DOMAIN matching_clusters :
              clusters[matching_clusters[i]] <= clusters[matching_clusters[j]]
        /\ \A j \in 1..(i - 1) :
              clusters[matching_clusters[j]] > clusters[matching_clusters[i]]]

\* ShardMapping refined by a significant cluster of the file's folders.
ShardMapping_with_cluster(f, shard_type) ==
    LET year == best_year(f)
        matching == path_tokens(f) \cap significant_clusters(semantic_clusters)
        proposed_parts ==
            <<primary_category(f), shard_type>>
            \o (IF matching # {} THEN <<Title(CHOOSE c \in matching : TRUE)>> ELSE <<>>)
            \o (IF year # None /\ primary_category(f) = Images THEN <<year>> ELSE <<>>)
    IN  [current_path |-> f.path,
         proposed_category |-> Join(<<"/">>, proposed_parts),
         content_type |-> primary_category(f),
         semantic_hints |-> <<shard_type>>,
         year |-> year,
         exif_year |-> f.exif_year,
         is_hex_shard |-> TRUE]

\* Lines 557-579: the mapping of a file inside a shard.
ShardMapping(f, shard_type) ==
    LET year == best_year(f)
        proposed_parts ==
            <<primary_category(f), shard_type>>
            \o (IF year # None /\ primary_category(f) = Images THEN <<year>> ELSE <<>>)
    IN  [current_path |-> f.path,
         proposed_category |-> Join(<<"/">>, proposed_parts),
         content_type |-> primary_category(f),
         semantic_hints |-> <<shard_type>>,
         year |-> year,
         exif_year |-> f.exif_year,
         is_hex_shard |-> TRUE]

\* The mapping of a file outside every shard (lines 581-620);
\* matching_clusters is the list of line 588, in the iteration order of the
\* set path_tokens.
RegularMapping(f, matching_clusters, clusters) ==
    LET year == best_year(f)
        proposed_parts ==
            <<primary_category(f)>>
            \o (IF matching_clusters # <<>> /\ ~ (primary_category(f) = Images /\ year # None)
                THEN <<Title(MinByCount(matching_clusters, clusters))>> ELSE <<>>)
            \o (IF year # None THEN <<year>> ELSE <<>>)
    IN  [current_path |-> f.path,
         proposed_category |-> Join(<<"/">>, proposed_parts),
         content_type |-> primary_category(f),
         semantic_hints |-> SubSeq(matching_clusters, 1,
                                IF Len(matching_clusters) < 3 THEN Len(matching_clusters) ELSE 3),
         year |-> year,
         exif_year |-> f.exif_year,
         is_hex_shard |-> FALSE]

\* One iteration of the loop of assign_files_to_categories (lines 549-620).
\* The iteration order of the set path_tokens is not fixed by its contents
\* (string hashing is seeded per process): any order of the matching tokens.
AssignFile ==
    /\ run \in {1, 2}
    /\ Len(mappings[run]) < Len(tax_files)
    /\ LET f == tax_files[Len(mappings[run]) + 1]
           matching == path_tokens(f) \cap significant_clusters(semantic_clusters)
       IN  IF is_in_hex_shard(f) # None
           THEN mappings' = [mappings EXCEPT ![run] = Append(@, ShardMapping(f, is_in_hex_shard(f)))]
           ELSE \E matching_clusters \in Orders(matching) :
                   mappings' = [mappings EXCEPT ![run] =
                       Append(@, RegularMapping(f, matching_clusters, semantic_clusters))]
    /\ UNCHANGED <<tax_files, semantic_clusters, run>>
    /\ UNCHANGED <<dupeVars, manifest_items, exifVars, clusterVars, orgVars>>

\* The classification is run again on the same files and clusters.
RunAgain ==
    /\ run = 1
    /\ Len(mappings[1]) = Len(tax_files)
    /\ run' = 2
    /\ UNCHANGED <<tax_files, semantic_clusters, mappings>>
    /\ UNCHANGED <<dupeVars, manifest_items, exifVars, clusterVars, orgVars>>

TaxNext == AssignFile \/ RunAgain

-----------------------------------------------------------------------------
(* taxonomy.py: the inputs explored *)

MaxTaxFiles == 1

ImageJpeg == <<"i", "m", "a", "g", "e", "/", "j", "p", "e", "g">>

ApplicationPdf == <<"a", "p", "p", "l", "i", "c", "a", "t", "i", "o", "n", "/", "p", "d", "f">>

Mtime2020 == <<"2", "0", "2", "0", "-", "0", "5", "-", "0", "1", "T", "1", "0", ":", "0", "0", ":", "0", "0">>

Exif2015 == <<"2", "0", "1", "5">>

Family == <<"f", "a", "m", "i", "l", "y">>

Vacation == <<"v", "a", "c", "a", "t", "i", "o", "n">>

\* The counts a cluster is given: just below the support of line 546, at it
\* and above it.
ClusterCounts == {SignificantSupport - 1, SignificantSupport, SignificantSupport + 1}

\* The dictionaries token -> count over the tokens `family` and `vacation`.
ClusterDicts ==
    UNION {[tokens -> ClusterCounts] : tokens \in SUBSET {Family, Vacation}}

TaxEntries(paths, exif_years) ==
    {TaxEntry(p, ExtensionOf(PathName(p)), m, t, e) : p \in paths, m \in {ImageJpeg, ApplicationPdf},
                            t \in {<<>>, Mtime2020}, e \in exif_years}

\* find-dupes.py is not running.
DupesIdle ==
    /\ files = <<>>
    /\ pc = "idle"
    /\ exact_dupes = <<>>
    /\ near_dupes = <<>>
    /\ junk_files = <<>>
    /\ keep_set = {}
    /\ delete_list = <<>>
    /\ review_list = <<>>
    /\ keep_txt = <<>>
    /\ delete_txt = <<>>
    /\ review_txt = <<>>

TaxInit(paths, exif_years, dicts) ==
    /\ DupesIdle
    /\ OrgIdle
    /\ tax_files \in UNION {[1..n -> TaxEntries(paths, exif_years)] : n \in 1..MaxTaxFiles}
    /\ semantic_clusters \in dicts
    /\ manifest_items = <<>>
    /\ ExifIdle("assign")
    /\ ClustersIdle
    /\ run = 1
    /\ mappings = [r \in {1, 2} |-> <<>>]

\* Shards: paths with each pattern alone, with two of them and with none.
SpecShard == TaxInit(ShardPaths, {None, Exif2015}, {<<>>}) /\ [][TaxNext]_vars

\* Years: every combination of EXIF year, path years and mtime; no clusters.
SpecYear == TaxInit(YearPaths, {None, Exif2015}, {<<>>}) /\ [][TaxNext]_vars

\* Categories: shards, cluster tokens and years of path and mtime under every
\* cluster dictionary.
SpecAssign == TaxInit(AssignPaths, {None}, ClusterDicts) /\ [][TaxNext]_vars

-----------------------------------------------------------------------------
(* Properties of taxonomy.py *)

\* The files classified so far with their mappings, in run r.
Assigned(r) == {<<tax_files[i], mappings[r][i]>> : i \in DOMAIN mappings[r]}

AssignedAny == IF run = 0 THEN {} ELSE Assigned(1) \cup Assigned(2)

\* mtime[:4]
MtimeYear(f) == SubSeq(f.mtime, 1, IF Len(f.mtime) < 4 THEN Len(f.mtime) ELSE 4)

Photos1999 == <<"/", "p", "h", "o", "t", "o", "s", "/", "1", "9", "9", "9", "/", "i", "m", "g", ".", "j", "p", "g">>

\* C6: best_year resolves the embedded year first, then a year of the path,
\* then the year of the mtime, and no year when there is none of them.
C6_YearPriority ==
    \A fm \in AssignedAny :
        LET f == fm[1]
            year == fm[2].year
        IN  /\ f.exif_year # None => year = f.exif_year
            /\ f.exif_year = None /\ PathYears(f.path) # {} => year \in PathYears(f.path)
            /\ f.exif_year = None /\ PathYears(f.path) = {} /\ f.mtime # <<>> =>
                  year = MtimeYear(f)
            /\ f.exif_year = None /\ PathYears(f.path) = {} /\ f.mtime = <<>> =>
                  year = None

\* Embedded year 2015, path year 1999 and mtime year 2020 resolved to 2015.
C6_Witness ==
    \E fm \in AssignedAny :
        /\ fm[1].exif_year = <<"2", "0", "1", "5">>
        /\ fm[1].path = Photos1999
        /\ fm[1].mtime = Mtime2020
        /\ fm[2].year = <<"2", "0", "1", "5">>

\* C7: without embedded year, a path with several distinct years resolves to
\* the greatest of them.
C7_MaxPathYear ==
    \A fm \in AssignedAny :
        fm[1].exif_year = None /\ Cardinality(PathYears(fm[1].path)) >= 2 =>
            fm[2].year = MaxPathYear(fm[1].path)

\* The shard patterns found in a path.
ShardsIn(path) ==
    {k \in 1..NumShardPatterns : \E i \in DOMAIN path : ShardPatternAt(k, path, i)}

\* The significant clusters with a token in the folders of the path.
MatchingClusters(path) ==
    {c \in PathTokens(path) :
        c \in DOMAIN semantic_clusters /\ semantic_clusters[c] >= SignificantSupport}

YearPart(year) == IF year # None THEN <<year>> ELSE <<>>

\* C8: the category of a file in a shard is bucket/shardLabel, and
\* bucket/shardLabel/year for an image with a resolved year; it has no
\* cluster segment.
C8_ShardCategory ==
    \A fm \in AssignedAny :
        LET f == fm[1]
            bucket == primary_category(f)
            year == IF bucket = Images THEN best_year(f) ELSE None
        IN  ShardsIn(f.path) # {} =>
                \E k \in ShardsIn(f.path) :
                    fm[2].proposed_category =
                        Join(<<"/">>, <<bucket, ShardLabel(k)>> \o YearPart(year))

\* A shard file under a folder named by a significant cluster was assigned.
C8_Witness ==
    \E fm \in AssignedAny :
        /\ ShardsIn(fm[1].path) # {}
        /\ MatchingClusters(fm[1].path) # {}

\* C9: outside the shards, a file that is not an image with a resolved year
\* and has matching significant clusters gets bucket/Cluster[/year] with a
\* matching cluster of the least count, title-cased; every other file gets
\* bucket[/year]; the year comes last.
C9_RegularCategory ==
    \A fm \in AssignedAny :
        LET f == fm[1]
            bucket == primary_category(f)
            year == best_year(f)
            matching == MatchingClusters(f.path)
        IN  ShardsIn(f.path) = {} =>
                IF matching # {} /\ ~ (bucket = Images /\ year # None)
                THEN \E c \in matching :
                        /\ \A d \in matching : semantic_clusters[c] <= semantic_clusters[d]
                        /\ fm[2].proposed_category =
                              Join(<<"/">>, <<bucket, Title(c)>> \o YearPart(year))
                ELSE fm[2].proposed_category = Join(<<"/">>, <<bucket>> \o YearPart(year))

\* A file with two matching clusters of different counts and a year was
\* assigned outside the shards.
C9_Witness ==
    \E fm \in AssignedAny :
        /\ ShardsIn(fm[1].path) = {}
        /\ primary_category(fm[1]) # Images
        /\ best_year(fm[1]) # None
        /\ \E c, d \in MatchingClusters(fm[1].path) :
              semantic_clusters[c] < semantic_clusters[d]

\* C10: two runs over the same files and clusters propose the same category
\* for every file.
C10_Deterministic ==
    run = 2 /\ Len(mappings[2]) = Len(tax_files) =>
        \A i \in DOMAIN tax_files :
            mappings[1][i].proposed_category = mappings[2][i].proposed_category

-----------------------------------------------------------------------------
(* taxonomy.py: extract_exif_year *)

\* Path.suffix.lower(): the extension with its dot.
SuffixLower(filename) ==
    IF ExtensionOf(filename) = <<>> THEN <<>> ELSE <<".">> \o ExtensionOf(filename)

IMAGE_EXTENSIONS ==
    {<<".", "j", "p", "g">>,
     <<".", "j", "p", "e", "g">>,
     <<".", "p", "n", "g">>,
     <<".", "t", "i", "f", "f">>,
     <<".", "t", "i", "f">>,
     <<".", "h", "e", "i", "c">>,
     <<".", "h", "e", "i", "f">>,
     <<".", "c", "r", "2">>,
     <<".", "n", "e", "f">>,
     <<".", "a", "r", "w">>,
     <<".", "d", "n", "g">>}

\* The extensions of the Pillow fallback (line 155).
PillowExtensions ==
    {<<".", "j", "p", "g">>, <<".", "j", "p", "e", "g">>, <<".", "t", "i", "f", "f">>, <<".", "t", "i", "f">>}

\* ext.lstrip('.')
RECURSIVE LStripDot(_)
LStripDot(ext) ==
    IF ext # <<>> /\ Head(ext) = "." THEN LStripDot(Tail(ext)) ELSE ext

DigitValue(c) == Ord(c) - Ord("0")

\* int(digits)
RECURSIVE ToInt(_)
ToInt(digits) ==
    IF digits = <<>> THEN 0
    ELSE 10 * ToInt(SubSeq(digits, 1, Len(digits) - 1)) + DigitValue(digits[Len(digits)])

\* date_str[:4]
Take4(date_str) == SubSeq(date_str, 1, IF Len(date_str) < 4 THEN Len(date_str) ELSE 4)

\* year.isdigit(), without the range test of lines 148 and 168.
valid_year_any_range(year) == IsDigits(year)

\* year.isdigit() and 1980 <= int(year) <= 2030
valid_year(year) == IsDigits(year) /\ 1980 <= ToInt(year) /\ ToInt(year) <= 2030

\* What the file at a path holds, as extract_exif_year meets it:
\*   exists        "yes", "no", or "raises" (Path.exists() re-raises an
\*                 OSError such as EACCES);
\*   process_file  "tags" (exifread returns `tags`), "raises" (after the file
\*                 was opened) or "unopenable" (open() raises);
\*   tags          exifread's dict, as <<name, date string>> pairs;
\*   pillow        "exif" (img._getexif() returns `exif_data`) or "raises";
\*   exif_data     Pillow's dict, as <<tag, value>> pairs in its order.
DiskFile(exists, process_file, tags, pillow, exif_data) ==
    [exists |-> exists, process_file |-> process_file, tags |-> tags,
     pillow |-> pillow, exif_data |-> exif_data]

\* The tag names of line 143, in the order they are tried.
EXIF_TAG_NAMES == <<"EXIF DateTimeOriginal", "EXIF DateTimeDigitized", "Image DateTime">>

\* The tags of line 165.
PIL_TAG_NAMES == {"DateTimeOriginal", "DateTimeDigitized", "DateTime"}

\* tags[tag_name], None when the tag is absent.
TagValue(tags, tag_name) ==
    LET hits == {k \in DOMAIN tags : tags[k][1] = tag_name} IN
    IF hits = {} THEN None ELSE tags[CHOOSE k \in hits : \A j \in hits : k <= j][2]

\* Lines 128-151: the year exifread yields, None when none is valid.
exifread_year(file) ==
    IF file.process_file # "tags" THEN None
    ELSE LET good == {k \in DOMAIN EXIF_TAG_NAMES :
                        /\ TagValue(file.tags, EXIF_TAG_NAMES[k]) # None
                        /\ valid_year(Take4(TagValue(file.tags, EXIF_TAG_NAMES[k])))}
         IN  IF good = {} THEN None
             ELSE Take4(TagValue(file.tags,
                     EXIF_TAG_NAMES[CHOOSE k \in good : \A j \in good : k <= j]))

\* Lines 154-171: the year of the Pillow fallback.
pillow_year(file, ext) ==
    IF ext \notin PillowExtensions \/ file.pillow # "exif" THEN None
    ELSE LET good == {k \in DOMAIN file.exif_data :
                        /\ file.exif_data[k][1] \in PIL_TAG_NAMES
                        /\ valid_year(Take4(file.exif_data[k][2]))}
         IN  IF good = {} THEN None
             ELSE Take4(file.exif_data[CHOOSE k \in good : \A j \in good : k <= j][2])

\* The value extract_exif_year returns once the file is open or was found
\* unopenable.
extracted_year(file, ext) ==
    IF exifread_year(file) # None THEN exifread_year(file) ELSE pillow_year(file, ext)

-----------------------------------------------------------------------------
(* taxonomy.py: load_manifest and extract_exif_years_batch *)

\* The keys of a manifest record that the model carries (size is left out).
RecordFields == {"path", "source", "filename", "extension", "mtime", "md5", "mime_type"}

\* known_fields of line 252, without size.
known_fields == RecordFields

\* filtered_item of line 253.
filtered_item(item) == [k \in DOMAIN item \cap known_fields |-> item[k]]

\* FileEntry(**filtered_item) raises TypeError when a field without default
\* is missing.
TaxFileEntryRaises(item) == DOMAIN filtered_item(item) # RecordFields

TaxFileEntry(item) ==
    LET kw == filtered_item(item)
    IN  TaxEntry(kw.path, kw.extension, kw.mime_type, kw.mtime, None)

\* Lines 190-193: the indices of the entries whose extension is an image
\* extension without its dot.
SelectImageFiles(entries) ==
    LET RECURSIVE Sel(_)
        Sel(i) ==
            IF i > Len(entries) THEN <<>>
            ELSE (IF /\ entries[i].extension # <<>>
                     /\ StrLower(entries[i].extension) \in {LStripDot(e) : e \in IMAGE_EXTENSIONS}
                  THEN <<i>> ELSE <<>>) \o Sel(i + 1)
    IN  Sel(1)

\* max_workers of extract_exif_years_batch.
max_workers == 4

Unset == [kind |-> "unset", of |-> 0]

\* A submitted call of extract_exif_year that has not started.
PendingTask ==
    [pc |-> "pending", old_stdout |-> Unset, raised |-> FALSE, year |-> None, attempts |-> 0]

\* The positions of a call that a worker has started and not finished.
RunningPcs == {"opened", "saved", "redirected", "restored"}

\* Lines 202-209: on a terminal the calls are made inside `with Progress(...)`;
\* entering it starts the live display, which keeps the current sys.stdout
\* and installs its proxy.
progress_enter(terminal, stdout) == IF terminal THEN FileProxy ELSE stdout

\* Leaving the block without the display giving sys.stdout back.
progress_exit_unrestored(terminal, kept, stdout) == stdout

\* Lines 203-221: leaving the `with Progress(...)` block, after the executor
\* has shut down, stops the live display, which puts back the sys.stdout it
\* kept on entry.
progress_exit(terminal, kept, stdout) == IF terminal THEN kept ELSE stdout

\* load_manifest (lines 244-264) up to the call of the batch: the entries,
\* and with --extract-exif the image files, each submitted to the executor.
LoadTaxManifest ==
    /\ tax_pc = "start"
    /\ IF \E i \in DOMAIN manifest_items : TaxFileEntryRaises(manifest_items[i])
       THEN /\ tax_pc' = "crashed"
            /\ UNCHANGED <<tax_files, image_files, task, sys_stdout>>
       ELSE /\ tax_files' = [i \in DOMAIN manifest_items |-> TaxFileEntry(manifest_items[i])]
            /\ IF extract_exif
               THEN /\ image_files' = SelectImageFiles(tax_files')
                    /\ task' = [k \in DOMAIN image_files' |-> PendingTask]
                    /\ sys_stdout' = progress_enter(is_terminal, sys_stdout)
                    /\ tax_pc' = "batch"
               ELSE /\ tax_pc' = "loaded"
                    /\ UNCHANGED <<image_files, task, sys_stdout>>
    /\ UNCHANGED <<semantic_clusters, run, mappings, manifest_items, extract_exif,
                   is_terminal, disk, results>>
    /\ UNCHANGED <<dupeVars, clusterVars, orgVars>>

\* The path of image file k.
TaskPath(k) == tax_files[image_files[k]].path

\* A call can start: a thread of the pool is free (line 212), or, without
\* a terminal, the loop of line 229 is through with the files before it.
may_start(k) ==
    IF is_terminal
    THEN Cardinality({j \in DOMAIN task : task[j].pc \in RunningPcs}) < max_workers
    ELSE \A j \in 1..(k - 1) : task[j].pc = "collected"

\* Lines 119-134: a worker (or, without a terminal, the loop of line 229)
\* enters extract_exif_year for image file k, up to the open() of line 133.
StartTask(k) ==
    /\ k \in DOMAIN task
    /\ task[k].pc = "pending"
    /\ may_start(k)
    /\ LET file == disk[TaskPath(k)]
           ext  == SuffixLower(PathName(TaskPath(k)))
           t    == [task[k] EXCEPT !.attempts = @ + 1]
       IN  task' = [task EXCEPT ![k] =
                IF file.exists = "raises" THEN [t EXCEPT !.pc = "done", !.raised = TRUE]
                ELSE IF file.exists = "no" \/ ext \notin IMAGE_EXTENSIONS
                     THEN [t EXCEPT !.pc = "done"]
                ELSE IF file.process_file = "unopenable"
                     THEN [t EXCEPT !.pc = "done", !.year = extracted_year(file, ext)]
                ELSE [t EXCEPT !.pc = "opened"]]
    /\ UNCHANGED <<taxVars, manifest_items, tax_pc, extract_exif, is_terminal, disk,
                   image_files, sys_stdout, results>>
    /\ UNCHANGED <<dupeVars, clusterVars, orgVars>>

\* Line 135: old_stdout = sys.stdout
SaveStdout(k) ==
    /\ k \in DOMAIN task
    /\ task[k].pc = "opened"
    /\ task' = [task EXCEPT ![k].pc = "saved", ![k].old_stdout = sys_stdout]
    /\ UNCHANGED <<taxVars, manifest_items, tax_pc, extract_exif, is_terminal, disk,
                   image_files, sys_stdout, results>>
    /\ UNCHANGED <<dupeVars, clusterVars, orgVars>>

\* Line 136: sys.stdout = io.StringIO()
RedirectStdout(k) ==
    /\ k \in DOMAIN task
    /\ task[k].pc = "saved"
    /\ sys_stdout' = StringIO(k)
    /\ task' = [task EXCEPT ![k].pc = "redirected"]
    /\ UNCHANGED <<taxVars, manifest_items, tax_pc, extract_exif, is_terminal, disk,
                   image_files, results>>
    /\ UNCHANGED <<dupeVars, clusterVars, orgVars>>

\* Lines 137-140: exifread.process_file returns or raises, and the finally
\* clause puts old_stdout back.
RestoreStdout(k) ==
    /\ k \in DOMAIN task
    /\ task[k].pc = "redirected"
    /\ sys_stdout' = task[k].old_stdout
    /\ task' = [task EXCEPT ![k].pc = "restored"]
    /\ UNCHANGED <<taxVars, manifest_items, tax_pc, extract_exif, is_terminal, disk,
                   image_files, results>>
    /\ UNCHANGED <<dupeVars, clusterVars, orgVars>>

\* Lines 141-173: the tags are read and the year, or None, is returned.
FinishTask(k) ==
    /\ k \in DOMAIN task
    /\ task[k].pc = "restored"
    /\ task' = [task EXCEPT ![k].pc = "done",
                            ![k].year = extracted_year(disk[TaskPath(k)],
                                                       SuffixLower(PathName(TaskPath(k))))]
    /\ UNCHANGED <<taxVars, manifest_items, tax_pc, extract_exif, is_terminal, disk,
                   image_files, sys_stdout, results>>
    /\ UNCHANGED <<dupeVars, clusterVars, orgVars>>

\* Lines 216-221 and 233-237 with the test `if year` left out.
results_after_unfiltered(res, path, t) ==
    [p \in DOMAIN res \cup {path} |-> IF p = path THEN t.year ELSE res[p]]

\* Lines 216-221 and 233-237: try: year = ...; if year: results[path] = year;
\* except Exception: pass.
results_after(res, path, t) ==
    IF t.raised \/ t.year = None THEN res
    ELSE [p \in DOMAIN res \cup {path} |-> IF p = path THEN t.year ELSE res[p]]

\* The orchestrator takes the outcome of a finished call: the next future of
\* as_completed, or the end of the iteration of the sequential loop.
Collect(k) ==
    /\ tax_pc = "batch"
    /\ k \in DOMAIN task
    /\ task[k].pc = "done"
    /\ results' = results_after(results, TaskPath(k), task[k])
    /\ task' = [task EXCEPT ![k].pc = "collected"]
    /\ UNCHANGED <<taxVars, manifest_items, tax_pc, extract_exif, is_terminal, disk,
                   image_files, sys_stdout>>
    /\ UNCHANGED <<dupeVars, clusterVars, orgVars>>

\* The batch returns as soon as one outcome was taken.
batch_returns_early(tasks) ==
    tasks = <<>> \/ \E k \in DOMAIN tasks : tasks[k].pc = "collected"

\* The loop over as_completed (or over image_files) is exhausted and the
\* executor of line 212 has shut down: every call was made and taken.
batch_returns(tasks) == \A k \in DOMAIN tasks : tasks[k].pc = "collected"

\* Line 241: return results; the batch began with sys.stdout at the stream
\* of the interpreter, which is what the live display kept.
BatchReturn ==
    /\ tax_pc = "batch"
    /\ batch_returns(task)
    /\ sys_stdout' = progress_exit(is_terminal, OriginalStdout, sys_stdout)
    /\ tax_pc' = "merge"
    /\ UNCHANGED <<taxVars, manifest_items, extract_exif, is_terminal, disk,
                   image_files, task, results>>
    /\ UNCHANGED <<dupeVars, clusterVars, orgVars>>

\* Lines 258-261: the years are written into the entries.
MergeExif ==
    /\ tax_pc = "merge"
    /\ tax_files' = [i \in DOMAIN tax_files |->
            IF tax_files[i].path \in DOMAIN results
            THEN [tax_files[i] EXCEPT !.exif_year = results[tax_files[i].path]]
            ELSE tax_files[i]]
    /\ tax_pc' = "loaded"
    /\ UNCHANGED <<semantic_clusters, run, mappings, manifest_items, extract_exif,
                   is_terminal, disk, image_files, task, sys_stdout, results>>
    /\ UNCHANGED <<dupeVars, clusterVars, orgVars>>

ExifNext ==
    \/ LoadTaxManifest
    \/ \E k \in DOMAIN task : StartTask(k)
    \/ \E k \in DOMAIN task : SaveStdout(k)
    \/ \E k \in DOMAIN task : RedirectStdout(k)
    \/ \E k \in DOMAIN task : RestoreStdout(k)
    \/ \E k \in DOMAIN task : FinishTask(k)
    \/ \E k \in DOMAIN task : Collect(k)
    \/ BatchReturn
    \/ MergeExif

-----------------------------------------------------------------------------
(* taxonomy.py with --extract-exif: the inputs explored *)

MaxExifFiles == 2

PhotosImg == <<"/", "p", "h", "o", "t", "o", "s", "/", "i", "m", "g", ".", "j", "p", "g">>

DocsReport == <<"/", "d", "o", "c", "s", "/", "r", "e", "p", "o", "r", "t", ".", "p", "d", "f">>

ExifPaths == {Photos1999, PhotosImg, DocsReport}

\* detect_mime_type of the builders, for the files explored.
MimeOf(path) ==
    IF ExtensionOf(PathName(path)) = <<"p", "d", "f">> THEN ApplicationPdf ELSE ImageJpeg

\* generate_manifest_entry of manifest.py (lines 84-94) and of
\* manifest-scan.py (lines 61-71); size is left out.  Without hashing
\* manifest.py writes an empty md5 and manifest-scan.py no md5 at all.
BuilderItem(builder, compute_hash, path) ==
    LET entry ==
            [path      |-> path,
             source    |-> "gdrive",
             filename  |-> PathName(path),
             extension |-> IF builder = "manifest.py" THEN ExtensionOf(PathName(path))
                           ELSE SuffixLower(PathName(path)),
             mtime     |-> Mtime2020,
             md5       |-> IF compute_hash THEN "h1" ELSE "",
             mime_type |-> MimeOf(path)]
    IN  IF builder = "manifest.py" \/ compute_hash THEN entry
        ELSE [k \in DOMAIN entry \ {"md5"} |-> entry[k]]

Builders == {"manifest.py", "manifest-scan.py"}

Date2015 == <<"2", "0", "1", "5", ":", "0", "6", ":", "0", "1">>

Date2016 == <<"2", "0", "1", "6", ":", "0", "7", ":", "0", "2">>

Date2014 == <<"2", "0", "1", "4", ":", "0", "3", ":", "0", "4">>

Date1850 == <<"1", "8", "5", "0", ":", "0", "1", ":", "0", "1">>

Date2031 == <<"2", "0", "3", "1", ":", "0", "1", ":", "0", "1">>

Date0000 == <<"0", "0", "0", "0", ":", "0", "0", ":", "0", "0">>

Date199 == <<"1", "9", "9">>

\* A file without EXIF data (every file that is no image is one).
PlainFile == DiskFile("yes", "tags", <<>>, "exif", <<>>)

DiskFiles ==
    {PlainFile,
     DiskFile("no", "tags", <<>>, "exif", <<>>),
     DiskFile("raises", "tags", <<>>, "exif", <<>>),
     DiskFile("yes", "raises", <<>>, "raises", <<>>),
     DiskFile("yes", "unopenable", <<>>, "exif", << <<"DateTime", Date2014>> >>),
     DiskFile("yes", "tags", << <<"EXIF DateTimeOriginal", Date2015>> >>, "exif", <<>>),
     DiskFile("yes", "tags", << <<"EXIF DateTimeOriginal", Date0000>>,
                                <<"EXIF DateTimeDigitized", Date2016>> >>, "exif", <<>>),
     DiskFile("yes", "tags", << <<"EXIF DateTimeOriginal", Date1850>>,
                                <<"Image DateTime", Date2031>> >>,
              "exif", << <<"DateTimeOriginal", Date1850>>, <<"DateTime", Date199>> >>),
     DiskFile("yes", "tags", <<>>, "exif",
              << <<"Orientation", Date2015>>, <<"DateTimeDigitized", Date2031>>,
                 <<"DateTime", Date2014>> >>)}

\* The lists of at most n distinct paths.
RECURSIVE DistinctLists(_, _)
DistinctLists(paths, n) ==
    IF n = 0 THEN {<<>>}
    ELSE {<<>>} \cup UNION {{<<p>> \o rest : rest \in DistinctLists(paths \ {p}, n - 1)} : p \in paths}

\* taxonomy.py starts on the manifest one builder wrote for at most
\* MaxExifFiles files, with --extract-exif.
ExifInit ==
    /\ DupesIdle
    /\ OrgIdle
    /\ \E builder \in Builders, compute_hash \in BOOLEAN :
       \E paths \in DistinctLists(ExifPaths, MaxExifFiles) \ {<<>>} :
            /\ manifest_items =
                   [i \in DOMAIN paths |-> BuilderItem(builder, compute_hash, paths[i])]
            /\ disk \in {d \in [Range(paths) -> DiskFiles] :
                            \A p \in Range(paths) : p = DocsReport => d[p] = PlainFile}
    /\ tax_files = <<>>
    /\ semantic_clusters = <<>>
    /\ run = 0
    /\ mappings = <<>>
    /\ tax_pc = "start"
    /\ extract_exif = TRUE
    /\ is_terminal \in BOOLEAN
    /\ image_files = <<>>
    /\ task = <<>>
    /\ sys_stdout = OriginalStdout
    /\ results = <<>>
    /\ ClustersIdle

SpecExif == ExifInit /\ [][ExifNext]_vars

-----------------------------------------------------------------------------
(* Properties of the metadata extraction *)

\* C11: no call of extract_exif_year reads a variable that another call of
\* the batch has written: the sys.stdout a call saved is never the buffer
\* that another call installed.
C11_NoSharedState ==
    \A k \in DOMAIN task : \A j \in DOMAIN task \ {k} :
        task[k].old_stdout # StringIO(j)

\* The batch has returned its map.
BatchReturned == tax_pc \in {"merge", "loaded"}

YieldOf(path) ==
    LET file == disk[path]
        ext  == SuffixLower(PathName(path))
    IN  IF file.exists # "yes" \/ ext \notin IMAGE_EXTENSIONS THEN None
        ELSE extracted_year(file, ext)

SelectedPaths == {TaskPath(k) : k \in DOMAIN task}

C12_BestEffort ==
    /\ tax_pc = "crashed" => task = <<>>
    /\ \A k \in DOMAIN task : task[k].attempts <= 1
    /\ BatchReturned =>
          /\ \A k \in DOMAIN task : task[k].attempts = 1
          /\ DOMAIN results = {p \in SelectedPaths : YieldOf(p) # None}
          /\ \A p \in DOMAIN results : results[p] = YieldOf(p)

\* How far a call has come.
PcRank(p) ==
    CASE p = "pending" -> 0 [] p = "opened" -> 1 [] p = "saved" -> 2
      [] p = "redirected" -> 3 [] p = "restored" -> 4 [] p = "done" -> 5
      [] p = "collected" -> 6

RECURSIVE RankSum(_, _)
RankSum(tasks, n) == IF n = 0 THEN 0 ELSE PcRank(tasks[n].pc) + RankSum(tasks, n - 1)

\* How far load_manifest has come: its position, then the calls.
Progress ==
    <<CASE tax_pc = "start" -> 0 [] tax_pc = "batch" -> 1 [] tax_pc = "merge" -> 2
        [] OTHER -> 3,
      RankSum(task, Len(task))>>

\* Some step of the batch is possible: a call can start or go on, an
\* outcome can be taken, or the batch can return.
BatchCanStep ==
    \/ \E k \in DOMAIN task : task[k].pc = "pending" /\ may_start(k)
    \/ \E k \in DOMAIN task : task[k].pc \in RunningPcs \cup {"done"}
    \/ batch_returns(task)

\* C12: whatever files fail or raise, the batch completes (until it has
\* returned a step is always possible, and every step advances), every
\* selected file is attempted exactly once and the map holds exactly the
\* pairs of the files that yield a valid year, in the thread pool under
\* every completion order and in the sequential loop alike.
C12_BatchCompletes ==
    /\ [] C12_BestEffort
    /\ [] (tax_pc = "batch" => BatchCanStep)
    /\ [][tax_pc = "batch" => tax_pc' \in {"batch", "merge"}]_vars
    /\ [][\/ Progress'[1] > Progress[1]
          \/ Progress'[1] = Progress[1] /\ Progress'[2] > Progress[2]]_vars

\* The thread pool returned the map of two files of which one raised and
\* the other yielded a year.
C12_Witness ==
    /\ BatchReturned
    /\ is_terminal
    /\ Len(task) = 2
    /\ \E k \in DOMAIN task : task[k].raised
    /\ Cardinality(DOMAIN results) = 1

\* C13: an exif_year is written only by the step of load_manifest that
\* follows the return of the batch, when every call has finished and been
\* taken, and never by a step of a call.
C13_MergeAfterCompletion ==
    [][(\E i \in DOMAIN tax_files \cap DOMAIN tax_files' :
            tax_files'[i].exif_year # tax_files[i].exif_year)
        => /\ tax_pc = "merge"
           /\ \A k \in DOMAIN task : task[k].pc = "collected"
           /\ task' = task]_vars

\* Two image files were extracted and a year was merged into an entry.
C13_Witness ==
    /\ tax_pc = "loaded"
    /\ Len(task) = 2
    /\ \E i \in DOMAIN tax_files : tax_files[i].exif_year # None

-----------------------------------------------------------------------------
(* taxonomy.py: discover_semantic_clusters *)

\* The tokens of the folders of a file, in the order the loops meet them.
file_token_list(f) ==
    IF f.path \in AllPaths THEN TokenListOfPath[f.path] ELSE PathTokenList(f.path)

\* The loop of lines 418-421 without seen_tokens: every occurrence counts.
tokens_appended_every_time(tokens) == tokens

\* The tokens for which lines 418-421 append the file: seen_tokens lets
\* each token through once, at its first occurrence.
tokens_appended(tokens) ==
    LET RECURSIVE Unseen(_)
        Unseen(n) ==
            IF n = 0 THEN <<>>
            ELSE Unseen(n - 1)
                 \o (IF \E j \in 1..(n - 1) : tokens[j] = tokens[n] THEN <<>> ELSE <<tokens[n]>>)
    IN  Unseen(Len(tokens))

\* token_files[token].append(f) for each of the tokens, on the dict as
\* <<token, files_list>> pairs in insertion order.
RECURSIVE AppendFile(_, _, _)
AppendFile(items, tokens, f) ==
    IF tokens = <<>> THEN items
    ELSE LET token == Head(tokens)
             hits  == {i \in DOMAIN items : items[i][1] = token}
             next  == IF hits = {}
                      THEN Append(items, <<token, <<f.path>> >>)
                      ELSE LET i == CHOOSE h \in hits : TRUE
                           IN  SubSeq(items, 1, i - 1)
                               \o << <<token, Append(items[i][2], f.path)>> >>
                               \o SubSeq(items, i + 1, Len(items))
         IN  AppendFile(next, Tail(tokens), f)

\* Lines 424-429 with no token filtered out.
significant_tokens_unfiltered(items, min_size) == items

\* Lines 424-429: the tokens of at least min_cluster_size files.
significant_tokens(items, min_size) ==
    SelectSeq(items, LAMBDA e : Len(e[2]) >= min_size)

\* Lines 431-443: the returned dict as <<token, count>> pairs in its order,
\* that of sorted(significant_tokens.items(), key=lambda x: -len(x[1])).
clusters_of(items, min_size) ==
    LET sig    == significant_tokens(items, min_size)
        keyed  == [i \in DOMAIN sig |-> << <<Len(sig[i][2])>>, sig[i] >>]
        sorted == SortedDescending(keyed)
    IN  [i \in DOMAIN sorted |-> <<sorted[i][2][1], Len(sorted[i][2][2])>>]

\* One iteration of the loop over files of discover_semantic_clusters
\* (lines 413-421).
DiscoverFile ==
    /\ tax_pc = "loaded"
    /\ token_files.scanned < Len(tax_files)
    /\ LET f == tax_files[token_files.scanned + 1]
       IN  token_files' =
               [scanned |-> token_files.scanned + 1,
                items   |-> AppendFile(token_files.items, tokens_appended(file_token_list(f)), f)]
    /\ UNCHANGED <<taxVars, manifest_items, exifVars, min_cluster_size, cluster_list>>
    /\ UNCHANGED <<dupeVars, orgVars>>

\* The rest of discover_semantic_clusters (lines 424-443) and main(), lines
\* 885-891: the clusters are handed to assign_files_to_categories, which
\* starts with no mapping.
DiscoverClusters ==
    /\ tax_pc = "loaded"
    /\ token_files.scanned = Len(tax_files)
    /\ LET clusters == clusters_of(token_files.items, min_cluster_size)
       IN  /\ cluster_list' = [i \in DOMAIN clusters |-> clusters[i][1]]
           /\ semantic_clusters' =
                  [token \in {clusters[i][1] : i \in DOMAIN clusters} |->
                      clusters[CHOOSE i \in DOMAIN clusters : clusters[i][1] = token][2]]
    /\ tax_pc' = "assign"
    /\ run' = 1
    /\ mappings' = [r \in {1, 2} |-> <<>>]
    /\ UNCHANGED <<tax_files, manifest_items, extract_exif, is_terminal, disk,
                   image_files, task, sys_stdout, results, min_cluster_size, token_files>>
    /\ UNCHANGED <<dupeVars, orgVars>>

ClusterNext == DiscoverFile \/ DiscoverClusters \/ AssignFile

-----------------------------------------------------------------------------
(* taxonomy.py, cluster discovery: the inputs explored *)

\* The first n files of a folder.
Block(File(_), n) ==
    [k \in 1..n |-> TaxEntry(File(k), <<"p", "d", "f">>, ApplicationPdf, Mtime2020, None)]

\* `first` files of one folder, then `second` files of the other, then the
\* file with the repeated token and a photo in a year folder.
Corpus(order, a, b) ==
    (IF order = "vacation first"
     THEN Block(VacationFile, a) \o Block(FamilyFile, b)
     ELSE Block(FamilyFile, b) \o Block(VacationFile, a))
    \o <<TaxEntry(TripFile, <<"p", "d", "f">>, ApplicationPdf, Mtime2020, None),
         TaxEntry(Photos1999, <<"j", "p", "g">>, ImageJpeg, Mtime2020, None)>>

\* Folder sizes just below and at the support of line 546; thresholds at the
\* default, at that support and above it.
ClusterInit ==
    /\ DupesIdle
    /\ OrgIdle
    /\ manifest_items = <<>>
    /\ ExifIdle("loaded")
    /\ \E order \in {"vacation first", "family first"} :
       \E a, b \in {SignificantSupport - 1, SignificantSupport} :
            tax_files = Corpus(order, a, b)
    /\ min_cluster_size \in {DefaultMinCluster, SignificantSupport, SignificantSupport + 1}
    /\ token_files = [scanned |-> 0, items |-> <<>>]
    /\ cluster_list = <<>>
    /\ semantic_clusters = <<>>
    /\ run = 0
    /\ mappings = <<>>

SpecClusters == ClusterInit /\ [][ClusterNext]_vars

\* main() of taxonomy.py with --extract-exif, lines 869-891: the manifest
\* is loaded, the clusters are discovered and the files classified.
TaxMainNext == ExifNext \/ ClusterNext

SpecTaxMain == ExifInit /\ [][TaxMainNext]_vars

-----------------------------------------------------------------------------
(* Properties of the cluster discovery *)

\* Every token of a folder of a file of the corpus.
CorpusTokens == UNION {path_tokens(tax_files[i]) : i \in DOMAIN tax_files}

\* The number of distinct files with the token in at least one folder.
FileCount(token) ==
    Cardinality({i \in DOMAIN tax_files : token \in path_tokens(tax_files[i])})

BelowSupport == {token \in CorpusTokens : FileCount(token) < min_cluster_size}

Discovered == tax_pc = "assign" /\ run = 1

\* The segments of a category between the bucket (and the shard label) and
\* the year.
ClusterSegments(m) ==
    LET segs == Split(m.proposed_category, "/")
    IN  {segs[i] : i \in {j \in 2..Len(segs) :
                            /\ ~ (j = Len(segs) /\ m.year # None)
                            /\ ~ (j = 2 /\ m.is_hex_shard)}}

AllSegments(m) ==
    LET segs == Split(m.proposed_category, "/") IN {segs[i] : i \in DOMAIN segs}

InHints(token, m) == \E i \in DOMAIN m.semantic_hints : m.semantic_hints[i] = token

\* C14, as stated: a token below the minimum support is not in the
\* discovered set, in no semantic_hints, and no segment of any
\* proposed_category is the token.
C14_NeverASegment ==
    Discovered =>
        \A token \in BelowSupport :
            /\ token \notin DOMAIN semantic_clusters
            /\ \A fm \in Assigned(1) :
                  /\ ~ InHints(token, fm[2])
                  /\ token \notin AllSegments(fm[2])
                  /\ Title(token) \notin AllSegments(fm[2])

\* C14: a token below the minimum support is not in the discovered set, in
\* no semantic_hints, and is the cluster segment of no proposed_category
\* (the segment between the bucket and the year).
C14_BelowSupportUnused ==
    Discovered =>
        \A token \in BelowSupport :
            /\ token \notin DOMAIN semantic_clusters
            /\ \A fm \in Assigned(1) :
                  /\ ~ InHints(token, fm[2])
                  /\ Title(token) \notin ClusterSegments(fm[2])

\* Every file is classified, under a threshold above the support of line
\* 546, and a token of that support stays below the threshold.
C14_Witness ==
    /\ Discovered
    /\ Len(mappings[1]) = Len(tax_files)
    /\ \E token \in BelowSupport : FileCount(token) >= SignificantSupport
    /\ \E token \in DOMAIN semantic_clusters : \E fm \in Assigned(1) : InHints(token, fm[2])

\* C15: the discovered set holds exactly the tokens of at least
\* min_cluster_size distinct files, each with the number of distinct files
\* having it in some folder.
C15_CountsDistinctFiles ==
    Discovered =>
        /\ DOMAIN semantic_clusters = CorpusTokens \ BelowSupport
        /\ \A token \in DOMAIN semantic_clusters : semantic_clusters[token] = FileCount(token)

\* A token repeated in the folders of one file reaches the threshold with
\* that file counted once, and a token one file short of it is left out.
C15_Witness ==
    /\ Discovered
    /\ \E i \in DOMAIN tax_files :
          LET tokens == file_token_list(tax_files[i])
          IN  \E j, k \in DOMAIN tokens :
                 /\ j < k
                 /\ tokens[j] = tokens[k]
                 /\ tokens[j] \in DOMAIN semantic_clusters
                 /\ semantic_clusters[tokens[j]] = min_cluster_size
    /\ \E token \in BelowSupport : FileCount(token) = min_cluster_size - 1

\* C16, as stated: the clusters are in descending order of count, and
\* clusters of equal count in ascending alphabetical order of token.
C16_OrderedByCountThenToken ==
    Discovered =>
        \A i, j \in DOMAIN cluster_list :
            i < j =>
                \/ semantic_clusters[cluster_list[i]] > semantic_clusters[cluster_list[j]]
                \/ /\ semantic_clusters[cluster_list[i]] = semantic_clusters[cluster_list[j]]
                   /\ StrLess(cluster_list[i], cluster_list[j])

-----------------------------------------------------------------------------
(* Properties of the embedded year *)

\* Every date a reader can find in the file.
EmbeddedDates(file) ==
    {file.tags[k][2] : k \in DOMAIN file.tags} \cup {file.exif_data[k][2] : k \in DOMAIN file.exif_data}

\* Four digits with a value from 1980 to 2030.
PlausibleYear(year) ==
    /\ Len(year) = 4
    /\ \A i \in DOMAIN year : year[i] \in Digits
    /\ ToInt(year) \in 1980..2030

NoPlausibleDate(file) ==
    /\ EmbeddedDates(file) # {}
    /\ \A d \in EmbeddedDates(file) : ~ PlausibleYear(Take4(d))

\* C18: an embedded year that best_year returns has four digits and lies in
\* [1980, 2030]; a file whose embedded dates are all outside that range has
\* no embedded year and resolves to its path year, else to its mtime year.
C18_EmbeddedYearInRange ==
    \A fm \in AssignedAny :
        LET f == fm[1]
            year == fm[2].year
        IN  /\ f.exif_year # None => PlausibleYear(f.exif_year) /\ year = f.exif_year
            /\ NoPlausibleDate(disk[f.path]) =>
                  /\ f.exif_year = None
                  /\ PathYears(f.path) # {} => year \in PathYears(f.path)
                  /\ PathYears(f.path) = {} => year = MtimeYear(f)

\* One image with dates of 1850 and 2031 resolved to the year of its path,
\* another image to its embedded year.
C18_Witness ==
    /\ \E fm \in AssignedAny :
          /\ NoPlausibleDate(disk[fm[1].path])
          /\ fm[1].path = Photos1999
          /\ fm[2].year = <<"1", "9", "9", "9">>
    /\ \E fm \in AssignedAny :
          /\ fm[1].exif_year # None
          /\ fm[2].year = fm[1].exif_year

-----------------------------------------------------------------------------
(* find-dupes.py: load_manifest *)

\* The days of a month; February of a leap year has 29.
DaysInMonth(y, m) ==
    IF m = 2 THEN (IF y % 4 = 0 /\ (y % 100 # 0 \/ y % 400 = 0) THEN 29 ELSE 28)
    ELSE IF m \in {4, 6, 9, 11} THEN 30 ELSE 31

\* s[a..b] is a number.
IsNumber(s, a, b) == \A i \in a..b : s[i] \in Digits

\* "YYYY-MM-DDTHH:MM:SS" from position 1 of s, with the fields in range.
IsoDateTimeShape(s) ==
    /\ Len(s) >= 19
    /\ IsNumber(s, 1, 4) /\ s[5] = "-" /\ IsNumber(s, 6, 7) /\ s[8] = "-" /\ IsNumber(s, 9, 10)
    /\ s[11] \in {"T", " "}
    /\ IsNumber(s, 12, 13) /\ s[14] = ":" /\ IsNumber(s, 15, 16) /\ s[17] = ":"
    /\ IsNumber(s, 18, 19)
    /\ ToInt(SubSeq(s, 1, 4)) >= 1
    /\ ToInt(SubSeq(s, 6, 7)) \in 1..12
    /\ ToInt(SubSeq(s, 9, 10)) \in 1..DaysInMonth(ToInt(SubSeq(s, 1, 4)), ToInt(SubSeq(s, 6, 7)))
    /\ ToInt(SubSeq(s, 12, 13)) < 24
    /\ ToInt(SubSeq(s, 15, 16)) < 60
    /\ ToInt(SubSeq(s, 18, 19)) < 60

\* "+HH:MM" or "-HH:MM" at positions 20 to 25 of s.
IsoOffsetShape(s) ==
    /\ Len(s) = 25
    /\ s[20] \in {"+", "-"}
    /\ IsNumber(s, 21, 22) /\ s[23] = ":" /\ IsNumber(s, 24, 25)
    /\ ToInt(SubSeq(s, 21, 22)) < 24
    /\ ToInt(SubSeq(s, 24, 25)) < 60

\* The seconds from 1970-01-01T00:00:00 to the date and time at the head of
\* s on a calendar of months of 31 days, which orders as the datetimes do.
\* The years explored keep it within 32 bits.
IsoSeconds(s) ==
    LET days == (ToInt(SubSeq(s, 1, 4)) - 1970) * 372
                + (ToInt(SubSeq(s, 6, 7)) - 1) * 31 + (ToInt(SubSeq(s, 9, 10)) - 1)
    IN  ((days * 24 + ToInt(SubSeq(s, 12, 13))) * 60 + ToInt(SubSeq(s, 15, 16))) * 60
        + ToInt(SubSeq(s, 18, 19))

IsoOffsetSeconds(s) ==
    (IF s[20] = "-" THEN -1 ELSE 1)
    * (ToInt(SubSeq(s, 21, 22)) * 3600 + ToInt(SubSeq(s, 24, 25)) * 60)

\* datetime.fromisoformat on the forms explored: a date and time of 19
\* characters, the same with a UTC offset, and strings that are too short
\* for a date or do not start with a year, which it rejects.
fromisoformat(s) ==
    CASE Len(s) < 8 \/ ~ IsNumber(s, 1, 4) -> Malformed
      [] Len(s) = 19 /\ IsoDateTimeShape(s) -> Naive(IsoSeconds(s))
      [] IsoDateTimeShape(s) /\ IsoOffsetShape(s) -> Aware(IsoSeconds(s) - IsoOffsetSeconds(s))

\* The number that stands for the path of record i: its rank among the
\* paths of the manifest.
PathRank(items, i) ==
    1 + Cardinality({items[j].path : j \in {h \in DOMAIN items : StrLess(items[h].path, items[i].path)}})

\* FileEntry(**item) of line 185 raises TypeError on a key that is no field
\* and on a missing field (none has a default).
DupesFileEntryRaises(item) == DOMAIN item # RecordFields

\* load_manifest of find-dupes.py (lines 178-187), called at line 219.
LoadDupesManifest ==
    /\ pc = "start"
    /\ IF \E i \in DOMAIN manifest_items : DupesFileEntryRaises(manifest_items[i])
       THEN /\ pc' = "crashed"
            /\ UNCHANGED files
       ELSE /\ pc' = "loaded"
            /\ files' = [i \in DOMAIN manifest_items |->
                   LET item == manifest_items[i]
                   IN  FileEntry(PathRank(manifest_items, i), item.source, item.filename,
                                 item.extension, fromisoformat(item.mtime), item.md5)]
    /\ UNCHANGED <<exact_dupes, near_dupes, junk_files, keep_set, delete_list, review_list,
                   keep_txt, delete_txt, review_txt>>
    /\ UNCHANGED <<taxVars, manifest_items, exifVars, clusterVars, orgVars>>

\* Each engine loads the inventory.
LoadNext == LoadDupesManifest \/ LoadTaxManifest

-----------------------------------------------------------------------------
(* Manifest loading: the inputs explored *)

MaxLoadFiles == 2

\* The record with one more key.
WithField(item, key, value) ==
    [k \in DOMAIN item \cup {key} |-> IF k = key THEN value ELSE item[k]]

\* Keys that no FileEntry has, and one that only taxonomy's FileEntry has.
ExtraFields == {"sha256", "exif_year"}

\* The records of the two builders, as written and with one key added.
LoadItems ==
    LET built == {BuilderItem(b, h, p) : b \in Builders, h \in BOOLEAN, p \in {Photos1999, DocsReport}}
    IN  built \cup {WithField(item, key, Exif2015) : item \in built, key \in ExtraFields}

LoadInit ==
    /\ OrgIdle
    /\ manifest_items \in UNION {[1..n -> LoadItems] : n \in 1..MaxLoadFiles}
    /\ files = <<>>
    /\ pc = "start"
    /\ exact_dupes = <<>>
    /\ near_dupes = <<>>
    /\ junk_files = <<>>
    /\ keep_set = {}
    /\ delete_list = <<>>
    /\ review_list = <<>>
    /\ keep_txt = <<>>
    /\ delete_txt = <<>>
    /\ review_txt = <<>>
    /\ tax_files = <<>>
    /\ semantic_clusters = <<>>
    /\ run = 0
    /\ mappings = <<>>
    /\ ExifIdle("start")
    /\ ClustersIdle

SpecLoad == LoadInit /\ [][LoadNext]_vars

-----------------------------------------------------------------------------
(* Properties of the manifest loading *)

\* Some record has a key that is no field of the inventory, and every
\* record has the fields.
HasExtraFields ==
    /\ \A i \in DOMAIN manifest_items : RecordFields \subseteq DOMAIN manifest_items[i]
    /\ \E i \in DOMAIN manifest_items : DOMAIN manifest_items[i] # RecordFields

\* C19, as stated: an inventory whose records carry unknown extra fields is
\* loaded by both engines, one record per input record.
C19_ExtraFieldsDropped ==
    HasExtraFields =>
        /\ pc # "crashed"
        /\ tax_pc # "crashed"
        /\ pc = "loaded" => Len(files) = Len(manifest_items)
        /\ tax_pc = "loaded" => Len(tax_files) = Len(manifest_items)

\* C20, as stated: every record of either builder has a lower-cased
\* extension without leading dot, and the image selection selects exactly
\* the records whose extension is an image extension.
C20_ExtensionWithoutDot ==
    /\ \A i \in DOMAIN manifest_items :
          LET extension == manifest_items[i].extension
          IN  /\ extension = StrLower(extension)
              /\ extension = <<>> \/ extension[1] # "."
    /\ tax_pc \in {"batch", "merge", "loaded"} =>
          Range(image_files) =
              {i \in DOMAIN manifest_items :
                  SuffixLower(PathName(manifest_items[i].path)) \in IMAGE_EXTENSIONS}

-----------------------------------------------------------------------------
(* organize.py and delete-executor.py: paths *)

\* The clock when a run begins, and the seconds that may pass in it.
StartTime == 1700000000

MaxSeconds == 1

\* Path.suffix of a file name.
Suffix(name) ==
    LET dots == {i \in DOMAIN name : name[i] = "."} IN
    IF dots = {} THEN <<>>
    ELSE LET i == CHOOSE d \in dots : \A e \in dots : e <= d
         IN  IF i > 1 /\ i < Len(name) THEN SubSeq(name, i, Len(name)) ELSE <<>>

\* Path.stem of a file name.
Stem(name) == SubSeq(name, 1, Len(name) - Len(Suffix(name)))

\* Path.parent of an absolute path below the root.
Parent(path) ==
    LET slashes == {i \in DOMAIN path : path[i] = "/"}
        i == CHOOSE d \in slashes : \A e \in slashes : e <= d
    IN  SubSeq(path, 1, i - 1)

\* dir / name
Child(dir, name) == dir \o <<"/">> \o name

\* Path.with_suffix(ext)
with_suffix(path, ext) == Child(Parent(path), Stem(PathName(path)) \o ext)

\* Path.suffix.lower()
suffix_lower(path) == StrLower(Suffix(PathName(path)))

\* Every directory above a path, the root left out.
Ancestors(path) == {SubSeq(path, 1, i - 1) : i \in {k \in DOMAIN path : k > 1 /\ path[k] = "/"}}

\* Path.exists()
PathExists(path) == path \in DOMAIN file_system \/ path \in dirs

\* The file system after shutil.move(src, dst) of a regular file onto a
\* path that is no directory: os.rename, which replaces a file at dst.
moved(files_before, src, dst) ==
    [p \in (DOMAIN files_before \ {src}) \cup {dst} |->
        IF p = dst THEN files_before[src] ELSE files_before[p]]

-----------------------------------------------------------------------------
(* delete-executor.py *)

INGEST_ROOT == <<"/", "m", "n", "t", "/", "t", "r", "u", "e", "n", "a", "s", "/", "s", "t", "a", "g", "i", "n", "g", "/", "i", "n", "g", "e", "s", "t">>

DEFAULT_TRASH_DIR == <<"/", "m", "n", "t", "/", "t", "r", "u", "e", "n", "a", "s", "/", "s", "t", "a", "g", "i", "n", "g", "/", ".", "t", "r", "a", "s", "h">>

\* The roots get_trash_path tries, in its order (line 61).
TrashRoots == <<INGEST_ROOT, <<"/", "m", "n", "t", "/", "t", "r", "u", "e", "n", "a", "s", "/", "s", "t", "a", "g", "i", "n", "g">>, <<"/", "m", "n", "t", "/", "t", "r", "u", "e", "n", "a", "s">>, <<>> >>

\* original.relative_to(root) succeeds.
IsRelativeTo(path, root) ==
    /\ Len(root) < Len(path)
    /\ SubSeq(path, 1, Len(root)) = root
    /\ path[Len(root) + 1] = "/"

\* Lines 52-69: the path below the first root that holds the original.
get_trash_path(original_path, trash_dir) ==
    LET k == CHOOSE j \in DOMAIN TrashRoots :
                 /\ IsRelativeTo(original_path, TrashRoots[j])
                 /\ \A h \in 1..(j - 1) : ~IsRelativeTo(original_path, TrashRoots[h])
    IN  trash_dir \o SubSeq(original_path, Len(TrashRoots[k]) + 1, Len(original_path))

\* The line main() writes into a new log (line 315).
LogHeader == <<"timestamp", "action", "source", "destination", "size">>

\* No deletion-log.txt yet, in a directory where it can be created.
NoDeletionLog == [exists |-> FALSE, writable |-> TRUE, lines |-> <<>>]

\* The text of the clock, one per second (lines 95 and 315 of the two
\* programs).
TimeText(t) == Decimal(t)

\* Lines 143-162: the directories that cleanup_empty_dirs removes, walking up
\* from start while the directory is empty and is not stop_at.
RECURSIVE cleanup_empty_dirs(_, _, _, _)
cleanup_empty_dirs(current, stop_at, files_now, dirs_now) ==
    IF current = stop_at \/ current = <<>> THEN {}
    ELSE IF /\ current \in dirs_now
            /\ \A p \in DOMAIN files_now \cup dirs_now : current \notin Ancestors(p)
         THEN {current} \cup cleanup_empty_dirs(Parent(current), stop_at, files_now,
                                                dirs_now \ {current})
         ELSE {}

\* What a call changes: the files, the directories, the log, and the flag it
\* returns.
Outcome(files_after, dirs_after, log_after, success) ==
    [files |-> files_after, dirs |-> dirs_after, log |-> log_after, success |-> success]

\* Lines 102-104 and 133-135: open(log_file, 'a') and the record written.
log_after_move(log, record) == [log EXCEPT !.exists = TRUE, !.lines = Append(@, record)]

\* Lines 72-111: move_to_trash.  fault is what the operating system refuses:
\* "stat", "move" or nothing; appending to a log that cannot be written
\* raises after the file was moved.
move_to_trash(file_path, trash_dir, fault, t) ==
    LET unchanged == Outcome(file_system, dirs, deletion_log, FALSE)
        plain     == get_trash_path(file_path, trash_dir)
        made      == dirs \cup Ancestors(plain)
        dest      == IF plain \in DOMAIN file_system \/ plain \in made
                     THEN Child(Parent(plain),
                                Stem(PathName(plain)) \o <<"_">> \o TimeText(t) \o Suffix(PathName(plain)))
                     ELSE plain
        record    == <<TimeText(t), "MOVED", file_path, dest, "size">>
    IN  IF file_path \notin DOMAIN file_system THEN unchanged
        ELSE IF fault = "stat" THEN unchanged
        ELSE IF \E a \in Ancestors(plain) : a \in DOMAIN file_system THEN unchanged
        ELSE IF fault = "move" \/ dest \in made
             THEN Outcome(file_system, made, deletion_log, FALSE)
        ELSE IF ~deletion_log.writable
             THEN Outcome(moved(file_system, file_path, dest), made, deletion_log, FALSE)
        ELSE Outcome(moved(file_system, file_path, dest), made,
                     log_after_move(deletion_log, record), TRUE)

\* Lines 114-140: permanent_delete.
permanent_delete(file_path, fault, t) ==
    LET unchanged == Outcome(file_system, dirs, deletion_log, FALSE)
        removed   == [p \in DOMAIN file_system \ {file_path} |-> file_system[p]]
        record    == <<TimeText(t), "DELETED", file_path, <<>>, "size">>
    IN  IF file_path \notin DOMAIN file_system THEN unchanged
        ELSE IF fault \in {"stat", "move"} THEN unchanged
        ELSE IF ~deletion_log.writable
             THEN Outcome(removed, dirs, deletion_log, FALSE)
        ELSE Outcome(removed, dirs, log_after_move(deletion_log, record), TRUE)

\* main(), lines 234-316: delete.txt is loaded, the files that exist are
\* collected, the trash directory is made and a missing log is begun with
\* its header; the question of --permanent is answered with yes.
DeleteScan ==
    /\ del_pc = "start"
    /\ LET found == SelectSeq(delete_entries, LAMBDA p : p \in DOMAIN file_system)
       IN  /\ existing_files' = found
           /\ IF found = <<>>
              THEN /\ del_pc' = "done"
                   /\ UNCHANGED <<dirs, deletion_log>>
              ELSE /\ dirs' = IF permanent THEN dirs
                              ELSE dirs \cup {DEFAULT_TRASH_DIR} \cup Ancestors(DEFAULT_TRASH_DIR)
                   /\ IF deletion_log.exists
                      THEN /\ del_pc' = "deleting"
                           /\ UNCHANGED deletion_log
                      ELSE IF deletion_log.writable
                      THEN /\ del_pc' = "deleting"
                           /\ deletion_log' = [deletion_log EXCEPT !.exists = TRUE,
                                                                   !.lines = <<LogHeader>>]
                      ELSE /\ del_pc' = "crashed"
                           /\ UNCHANGED deletion_log
    /\ UNCHANGED <<file_system, now, delete_entries, permanent, outcomes, planVars>>
    /\ UNCHANGED <<dupeVars, taxVars, manifest_items, exifVars, clusterVars>>

\* main(), lines 338-356: one iteration of the loop over existing_files.
DeleteOne ==
    /\ del_pc = "deleting"
    /\ \E fault \in {"none", "stat", "move"} :
          LET i         == Len(outcomes) + 1
              file_path == existing_files[i]
              r         == IF permanent THEN permanent_delete(file_path, fault, now)
                           ELSE move_to_trash(file_path, DEFAULT_TRASH_DIR, fault, now)
              emptied   == IF r.success
                           THEN cleanup_empty_dirs(Parent(file_path), INGEST_ROOT, r.files, r.dirs)
                           ELSE {}
          IN  /\ file_system' = r.files
              /\ dirs' = r.dirs \ emptied
              /\ deletion_log' = r.log
              /\ outcomes' = Append(outcomes, r.success)
              /\ del_pc' = IF i = Len(existing_files) THEN "done" ELSE "deleting"
    /\ UNCHANGED <<now, delete_entries, permanent, existing_files, planVars>>
    /\ UNCHANGED <<dupeVars, taxVars, manifest_items, exifVars, clusterVars>>

-----------------------------------------------------------------------------
(* organize.py *)

DEST_ROOT == <<"/", "m", "n", "t", "/", "t", "r", "u", "e", "n", "a", "s">>

PHOTOS_DEST == Child(DEST_ROOT, <<"p", "h", "o", "t", "o", "s">>)

TEXT_CODE_DEST == Child(DEST_ROOT, <<"d", "o", "c", "u", "m", "e", "n", "t", "s", "/", "C", "o", "d", "e">>)

XMP_EXTENSIONS == {<<".", "x", "m", "p">>}

\* IMAGE_EXTENSIONS of organize.py (lines 66-70).
OrganizeImageExtensions ==
    {<<".", "j", "p", "g">>,
     <<".", "j", "p", "e", "g">>,
     <<".", "p", "n", "g">>,
     <<".", "t", "i", "f", "f">>,
     <<".", "t", "i", "f">>,
     <<".", "h", "e", "i", "c">>,
     <<".", "h", "e", "i", "f">>,
     <<".", "c", "r", "2">>,
     <<".", "n", "e", "f">>,
     <<".", "a", "r", "w">>,
     <<".", "d", "n", "g">>,
     <<".", "r", "a", "w">>,
     <<".", "r", "a", "f">>,
     <<".", "o", "r", "f">>,
     <<".", "p", "e", "f">>,
     <<".", "r", "w", "2">>,
     <<".", "s", "r", "w">>,
     <<".", "x", "3", "f">>}

\* CATEGORY_DESTINATIONS.get(top_category, DEST_ROOT / "Archives")
CATEGORY_DESTINATIONS(top_category) ==
    IF top_category = <<"I", "m", "a", "g", "e", "s">> THEN Child(DEST_ROOT, <<"p", "h", "o", "t", "o", "s">>)
    ELSE IF top_category = <<"D", "o", "c", "u", "m", "e", "n", "t", "s">> THEN Child(DEST_ROOT, <<"d", "o", "c", "u", "m", "e", "n", "t", "s">>)
    ELSE IF top_category = <<"V", "i", "d", "e", "o", "s">> THEN Child(DEST_ROOT, <<"m", "o", "v", "i", "e", "s">>)
    ELSE IF top_category = <<"A", "u", "d", "i", "o">> THEN Child(DEST_ROOT, <<"s", "t", "a", "g", "i", "n", "g", "/", "m", "a", "n", "u", "a", "l", "-", "r", "e", "v", "i", "e", "w", "/", "m", "u", "s", "i", "c">>)
    ELSE IF top_category = <<"O", "t", "h", "e", "r">> THEN Child(DEST_ROOT, <<"a", "r", "c", "h", "i", "v", "e", "s">>)
    ELSE Child(DEST_ROOT, <<"A", "r", "c", "h", "i", "v", "e", "s">>)

\* Lines 99-113: the non-empty values of the column "source" of the log,
\* whose first line names the columns.
load_deletion_log(log) ==
    IF ~log.exists \/ log.lines = <<>> THEN {}
    ELSE LET header  == log.lines[1]
             columns == {k \in DOMAIN header : header[k] = "source"}
         IN  IF columns = {} THEN {}
             ELSE LET k == CHOOSE c \in columns : \A d \in columns : d <= c
                  IN  {log.lines[n][k] : n \in 2..Len(log.lines)} \ {<<>>}

\* Lines 116-150: get_destination.
get_destination(source, category) ==
    LET parts        == Split(category, "/")
        top_category == parts[1]
        subcategory  == Join(<<"/">>, Tail(parts))
        dest_base    == IF top_category = <<"T", "e", "x", "t">>
                        THEN IF suffix_lower(source) \in XMP_EXTENSIONS
                             THEN PHOTOS_DEST
                             ELSE TEXT_CODE_DEST
                        ELSE CATEGORY_DESTINATIONS(top_category)
    IN  IF subcategory # <<>>
        THEN Child(Child(dest_base, subcategory), PathName(source))
        ELSE Child(dest_base, PathName(source))

\* Lines 153-166: the first of image.jpg.xmp, image.xmp, image.jpg.XMP and
\* image.XMP that exists.
find_xmp_sidecar(image_path) ==
    LET candidates == <<with_suffix(image_path, Suffix(PathName(image_path)) \o <<".", "x", "m", "p">>),
                        with_suffix(image_path, <<".", "x", "m", "p">>),
                        with_suffix(image_path, Suffix(PathName(image_path)) \o <<".", "X", "M", "P">>),
                        with_suffix(image_path, <<".", "X", "M", "P">>)>>
        found == {k \in DOMAIN candidates : PathExists(candidates[k])}
    IN  IF found = {} THEN None
        ELSE candidates[CHOOSE k \in found : \A h \in found : k <= h]

\* hashlib.md5 of the first 64 KB, in hex, cut to 8 characters: the digests
\* of the two leading blocks explored.
md5_hex8(head) == IF head = 1 THEN <<"c", "4", "c", "a", "4", "2", "3", "8">> ELSE <<"c", "8", "1", "e", "7", "2", "8", "d">>

\* Lines 169-179: get_short_hash of a file that can be read.
get_short_hash(filepath) == md5_hex8(file_system[filepath].head)

\* Lines 182-191: resolve_conflict.
resolve_conflict(dest, source) ==
    Child(Parent(dest),
          Stem(PathName(dest)) \o <<"_">> \o get_short_hash(source) \o Suffix(PathName(dest)))

MoveOperation(source, destination, category, is_sidecar, sidecar_for) ==
    [source |-> source, destination |-> destination, category |-> category,
     is_sidecar |-> is_sidecar, sidecar_for |-> sidecar_for,
     conflict_resolved |-> FALSE, original_dest |-> None]

\* The keys of the mapping.
MappingKeys == {mapping[i][1] : i \in DOMAIN mapping}

\* Lines 233-244: the mapping holds an image that the sidecar belongs to.
image_in_mapping(source) ==
    \/ \E img_ext \in OrganizeImageExtensions : with_suffix(source, img_ext) \in MappingKeys
    \/ /\ suffix_lower(source) = <<".", "x", "m", "p">>
       /\ \E img_ext \in OrganizeImageExtensions :
             EndsWith(StrLower(Stem(PathName(source))), img_ext)
       /\ with_suffix(source, <<>>) \in MappingKeys

\* Line 269: if sidecar and str(sidecar) not in processed_sidecars
sidecar_joins(sidecar, processed_sidecars) ==
    sidecar # None /\ sidecar \notin processed_sidecars

\* main(), lines 470-502, and build_move_operations, lines 223-280: one
\* iteration of the first pass over the mapping, in its order.
BuildRow ==
    /\ org_pc = "start"
    /\ del_pc \in {"idle", "done", "crashed"}
    /\ rows_done < Len(mapping)
    /\ rows_done' = rows_done + 1
    /\ LET source   == mapping[rows_done + 1][1]
           category == mapping[rows_done + 1][2]
       IN  IF ~PathExists(source)
           THEN /\ missing_files' = missing_files \cup {source}
                /\ UNCHANGED <<operations, dest_paths_used, skipped_sidecars>>
           ELSE IF /\ suffix_lower(source) \in XMP_EXTENSIONS
                   /\ image_in_mapping(source) \/ source \in skipped_sidecars
           THEN /\ skipped_sidecars' = skipped_sidecars \cup {source}
                /\ UNCHANGED <<operations, dest_paths_used, missing_files>>
           ELSE LET dest    == get_destination(source, category)
                    op      == MoveOperation(source, dest, category, FALSE, None)
                    sidecar == IF suffix_lower(source) \in OrganizeImageExtensions
                               THEN find_xmp_sidecar(source)
                               ELSE None
                    joins   == sidecar_joins(sidecar, skipped_sidecars)
                    sidecar_op ==
                        MoveOperation(sidecar, Child(Parent(dest), PathName(sidecar)),
                                      category, TRUE, PathName(source))
                IN  /\ operations' =
                           operations \o <<op>> \o (IF joins THEN <<sidecar_op>> ELSE <<>>)
                    /\ dest_paths_used' = Append(dest_paths_used, dest)
                    /\ skipped_sidecars' =
                           IF joins THEN skipped_sidecars \cup {sidecar} ELSE skipped_sidecars
                    /\ UNCHANGED missing_files
    /\ UNCHANGED <<diskVars, delVars, org_pc, mapping, dry_run, missing_deleted,
                   missing_unexpected, move_results>>
    /\ UNCHANGED <<dupeVars, taxVars, manifest_items, exifVars, clusterVars>>

\* Lines 282-291: the second pass; dest_paths_used holds one entry per
\* regular operation.
second_pass(ops, used) ==
    [i \in DOMAIN ops |->
        IF Cardinality({k \in DOMAIN used : used[k] = ops[i].destination}) > 1
        THEN [ops[i] EXCEPT !.original_dest = ops[i].destination,
                            !.destination = resolve_conflict(ops[i].destination, ops[i].source),
                            !.conflict_resolved = TRUE]
        ELSE ops[i]]

\* build_move_operations, lines 282-297, and main(), lines 494-534: the
\* conflicts are resolved, the deletion log is loaded and the missing files
\* are told apart.
OrganizePlan ==
    /\ org_pc = "start"
    /\ del_pc \in {"idle", "done", "crashed"}
    /\ rows_done = Len(mapping)
    /\ operations' = second_pass(operations, dest_paths_used)
    /\ missing_deleted' = missing_files \cap load_deletion_log(deletion_log)
    /\ missing_unexpected' = missing_files \ load_deletion_log(deletion_log)
    /\ org_pc' = IF operations = <<>> THEN "moved" ELSE "planned"
    /\ UNCHANGED <<diskVars, delVars, mapping, dry_run, rows_done, dest_paths_used,
                   missing_files, skipped_sidecars, move_results>>
    /\ UNCHANGED <<dupeVars, taxVars, manifest_items, exifVars, clusterVars>>

\* The destination is replaced by a name with the time although nothing is
\* to be moved.
renames_in_dry_run(dry, taken) == taken

\* Lines 311-312: the destination exists and the run is no dry run.
renames(dry, taken) == taken /\ ~dry

\* Lines 300-331: execute_move at second t.
execute_move(op, dry, t) ==
    LET made    == IF dry THEN dirs ELSE dirs \cup Ancestors(op.destination)
        blocked == ~dry /\ \E a \in Ancestors(op.destination) : a \in DOMAIN file_system
        taken   == op.destination \in DOMAIN file_system \/ op.destination \in made
        final   == IF renames(dry, taken)
                   THEN [op EXCEPT
                            !.original_dest = op.destination,
                            !.destination =
                                Child(Parent(op.destination),
                                      Stem(PathName(op.destination)) \o <<"_">> \o Decimal(t)
                                          \o Suffix(PathName(op.destination))),
                            !.conflict_resolved = TRUE]
                   ELSE op
    IN  IF blocked THEN [op |-> op, files |-> file_system, dirs |-> dirs, success |-> FALSE]
        ELSE IF dry THEN [op |-> final, files |-> file_system, dirs |-> made, success |-> TRUE]
        ELSE IF op.source \notin DOMAIN file_system \/ final.destination \in made
             THEN [op |-> final, files |-> file_system, dirs |-> made, success |-> FALSE]
        ELSE [op |-> final, files |-> moved(file_system, op.source, final.destination),
              dirs |-> made, success |-> TRUE]

\* main(), lines 574-577: one iteration of the loop over the operations; the
\* clock is read at its second or at the next.
ExecuteMove ==
    /\ org_pc = "planned"
    /\ \E t \in {now, now + 1} :
          /\ t <= StartTime + MaxSeconds
          /\ LET i == Len(move_results) + 1
                 r == execute_move(operations[i], dry_run, t)
             IN  /\ operations' = [operations EXCEPT ![i] = r.op]
                 /\ file_system' = r.files
                 /\ dirs' = r.dirs
                 /\ move_results' = Append(move_results, r.success)
                 /\ org_pc' = IF i = Len(operations) THEN "moved" ELSE "planned"
          /\ now' = t
    /\ UNCHANGED <<deletion_log, delVars, mapping, dry_run, rows_done, dest_paths_used,
                   missing_files, skipped_sidecars, missing_deleted, missing_unexpected>>
    /\ UNCHANGED <<dupeVars, taxVars, manifest_items, exifVars, clusterVars>>

OrganizeNext == BuildRow \/ OrganizePlan \/ ExecuteMove

DeleteNext == DeleteScan \/ DeleteOne \/ BuildRow \/ OrganizePlan

-----------------------------------------------------------------------------
(* organize.py and delete-executor.py: the runs explored *)

\* The most rows of a mapping, and the most lines of delete.txt.
MaxMapping == 3

MaxDeletes == 2

ImageX == Child(INGEST_ROOT, <<"x", "/", "a", ".", "j", "p", "g">>)

ImageY == Child(INGEST_ROOT, <<"y", "/", "a", ".", "j", "p", "g">>)

SidecarX == Child(INGEST_ROOT, <<"x", "/", "a", ".", "x", "m", "p">>)

SidecarY == Child(INGEST_ROOT, <<"y", "/", "a", ".", "x", "m", "p">>)

\* A sidecar left in the photos by an earlier run.
EarlierSidecar == Child(PHOTOS_DEST, <<"2", "0", "2", "0", "/", "a", ".", "x", "m", "p">>)

\* The rows a mapping is made of.
MappingRows ==
    {<<ImageX, <<"I", "m", "a", "g", "e", "s", "/", "2", "0", "2", "0">>>>, <<ImageY, <<"I", "m", "a", "g", "e", "s", "/", "2", "0", "2", "0">>>>, <<SidecarX, <<"T", "e", "x", "t", "/", "2", "0", "2", "0">>>>}

\* Contents: the first 64 KB and the rest.
Content(head, rest) == [head |-> head, rest |-> rest]

\* No file at the path.
Absent == [head |-> 0, rest |-> 0]

\* The paths of the file systems explored.
DiskPaths == <<ImageX, ImageY, SidecarX, SidecarY, EarlierSidecar>>

\* What may be at each of them: nothing or a content; two of the contents
\* agree in their first 64 KB.
Choices ==
    <<{Absent, Content(1, 1), Content(2, 1)},
      {Absent, Content(1, 1), Content(1, 2)},
      {Absent, Content(1, 3)},
      {Absent, Content(2, 3)},
      {Absent, Content(2, 4)}>>

\* The file system with the picked content at each path.
DiskOf(pick) ==
    [p \in {DiskPaths[k] : k \in {h \in DOMAIN pick : pick[h] # Absent}} |->
        pick[CHOOSE k \in DOMAIN DiskPaths : DiskPaths[k] = p]]

\* file_system is one of the file systems explored.
OnSomeDisk ==
    \E x \in Choices[1], y \in Choices[2], sx \in Choices[3], sy \in Choices[4],
       e \in Choices[5] :
          file_system = DiskOf(<<x, y, sx, sy, e>>)

DirsOf(files_on_disk) ==
    {INGEST_ROOT} \cup Ancestors(INGEST_ROOT)
        \cup UNION {Ancestors(p) : p \in DOMAIN files_on_disk}

OrganizeInit ==
    /\ DupesIdle
    /\ TaxIdle
    /\ manifest_items = <<>>
    /\ OnSomeDisk
    /\ dirs = DirsOf(file_system)
    /\ now = StartTime
    /\ deletion_log = NoDeletionLog
    /\ del_pc = "idle"
    /\ delete_entries = <<>>
    /\ permanent = FALSE
    /\ existing_files = <<>>
    /\ outcomes = <<>>
    /\ org_pc = "start"
    /\ mapping \in DistinctLists(MappingRows, MaxMapping) \ {<<>>}
    /\ dry_run \in BOOLEAN
    /\ rows_done = 0
    /\ dest_paths_used = <<>>
    /\ operations = <<>>
    /\ missing_files = {}
    /\ skipped_sidecars = {}
    /\ missing_deleted = {}
    /\ missing_unexpected = {}
    /\ move_results = <<>>

SpecOrganize == OrganizeInit /\ [][OrganizeNext]_vars

\* delete-executor.py, then organize.py, on one deletion log: absent, begun
\* by an earlier run, or begun and closed to writing.
DeleteInit ==
    /\ DupesIdle
    /\ TaxIdle
    /\ manifest_items = <<>>
    /\ OnSomeDisk
    /\ EarlierSidecar \notin DOMAIN file_system
    /\ dirs = DirsOf(file_system)
    /\ now = StartTime
    /\ deletion_log \in {NoDeletionLog,
                         [exists |-> TRUE, writable |-> TRUE, lines |-> <<LogHeader>>],
                         [exists |-> TRUE, writable |-> FALSE, lines |-> <<LogHeader>>]}
    /\ del_pc = "start"
    /\ delete_entries \in DistinctLists({ImageX, ImageY, SidecarX}, MaxDeletes)
    /\ permanent \in BOOLEAN
    /\ existing_files = <<>>
    /\ outcomes = <<>>
    /\ org_pc = "start"
    /\ mapping = <<<<ImageX, <<"I", "m", "a", "g", "e", "s", "/", "2", "0", "2", "0">>>>, <<ImageY, <<"I", "m", "a", "g", "e", "s", "/", "2", "0", "2", "0">>>>,
                   <<SidecarX, <<"T", "e", "x", "t", "/", "2", "0", "2", "0">>>>>>
    /\ dry_run = TRUE
    /\ rows_done = 0
    /\ dest_paths_used = <<>>
    /\ operations = <<>>
    /\ missing_files = {}
    /\ skipped_sidecars = {}
    /\ missing_deleted = {}
    /\ missing_unexpected = {}
    /\ move_results = <<>>

SpecDelete == DeleteInit /\ [][DeleteNext]_vars

-----------------------------------------------------------------------------
(* Properties of the keep score as an ordering *)

\* A is preferred to B: sorted(key=score_file, reverse=True) puts the greater
\* tuple first.
Before(a, b) == TupleLess(score_file(b), score_file(a))

Equivalent(a, b) == score_file(a) = score_file(b)

Records == {files[i] : i \in DOMAIN files}

-----------------------------------------------------------------------------
(* Properties of the shard detection *)

\* The text is somewhere in the path.
Contains(path, text) == \E i \in DOMAIN path : HasAt(path, i, text)

\* C22: a file is tagged with the label of the first pattern of the table,
\* in the order Apple Photos Library, Mylio Generated, Content-Addressable,
\* that is found in its path, and is no shard file when none is found; a
\* path with .photoslibrary/originals/4/IMG_0001.heic is tagged Apple Photos
\* Library.
C22_FirstPatternWins ==
    /\ <<ShardLabel(1), ShardLabel(2), ShardLabel(3)>> =
          << <<"A", "p", "p", "l", "e", " ", "P", "h", "o", "t", "o", "s", " ", "L", "i", "b", "r", "a", "r", "y">>,
             <<"M", "y", "l", "i", "o", " ", "G", "e", "n", "e", "r", "a", "t", "e", "d">>,
             <<"C", "o", "n", "t", "e", "n", "t", "-", "A", "d", "d", "r", "e", "s", "s", "a", "b", "l", "e">> >>
    /\ \A fm \in AssignedAny :
          LET found == ShardsIn(fm[1].path)
              m     == fm[2]
          IN  /\ m.is_hex_shard = (found # {})
              /\ found # {} =>
                    LET first == CHOOSE k \in found : \A h \in found : k <= h
                    IN  /\ m.semantic_hints = <<ShardLabel(first)>>
                        /\ Split(m.proposed_category, "/")[2] = ShardLabel(first)
              /\ Contains(fm[1].path, <<".", "p", "h", "o", "t", "o", "s", "l", "i", "b", "r", "a", "r", "y", "/",
                                        "o", "r", "i", "g", "i", "n", "a", "l", "s", "/", "4", "/",
                                        "I", "M", "G", "_", "0", "0", "0", "1", ".", "h", "e", "i", "c">>)
                    => m.semantic_hints = <<ShardLabel(1)>>

\* A file whose path holds the first and the third pattern was tagged by the
\* first.
C22_Witness ==
    \E fm \in AssignedAny :
       /\ ShardsIn(fm[1].path) = {1, 3}
       /\ fm[2].is_hex_shard
       /\ fm[2].semantic_hints = <<ShardLabel(1)>>

-----------------------------------------------------------------------------
(* Properties of the move plan and of the moves *)

\* build_move_operations has returned and no operation was executed yet.
Planned == org_pc \in {"planned", "moved"} /\ move_results = <<>>

\* C23, as stated: every sidecar that exists and was set aside to be moved
\* with its image is the source of exactly one operation, and that operation
\* goes to the directory of the operation of its image, in whatever order
\* the mapping lists the two.
C23_SidecarFollowsImage ==
    Planned =>
        \A s \in skipped_sidecars :
           s \in DOMAIN file_system =>
              \E i \in DOMAIN operations :
                 /\ operations[i].source = s
                 /\ \A j \in DOMAIN operations : operations[j].source = s => j = i
                 /\ \E k \in DOMAIN operations :
                       /\ suffix_lower(operations[k].source) \in OrganizeImageExtensions
                       /\ Parent(operations[k].source) = Parent(s)
                       /\ Parent(operations[k].destination) = Parent(operations[i].destination)

\* C24, as stated: no two of the operations built, regular or sidecar, have
\* the same destination path.
C24_DestinationsDistinct ==
    Planned =>
        \A i, j \in DOMAIN operations :
           operations[i].destination = operations[j].destination => i = j

C28_NoMoveReplacesAFile ==
    [][\A p \in DOMAIN file_system :
          p \in DOMAIN file_system' => file_system'[p] = file_system[p]]_vars

-----------------------------------------------------------------------------
(* Properties of the deletions and of their log *)

\* The log holds a record whose column "source" is the path.
Recorded(path) ==
    \E n \in 2..Len(deletion_log.lines) : deletion_log.lines[n][3] = path

\* C29, as stated: every file the executor removed has a record with its
\* path in the column "source"; a deletion that returned failure left the
\* file in place; and organize.py counts every such file of its mapping as
\* accounted for in the deletion log, none as unexpectedly missing.
C29_DeletionsAccounted ==
    /\ \A i \in DOMAIN existing_files :
          LET p == existing_files[i]
          IN  /\ p \notin DOMAIN file_system => Recorded(p)
              /\ (i \in DOMAIN outcomes /\ ~outcomes[i]) => p \in DOMAIN file_system
    /\ org_pc # "start" =>
          \A p \in Range(existing_files) \cap MappingKeys :
             p \notin DOMAIN file_system =>
                p \in missing_deleted /\ p \notin missing_unexpected

====
